---- MODULE Spec2Model ----
(***************************************************************************)
(* Order fulfilment pipeline of the event-driven order management system:  *)
(* the system of record (products, orders), the Redis cache-aside layer,   *)
(* the Kafka producer, and the request handlers of app/services.           *)
(*                                                                         *)
(* Every request runs in its own database session (app/db/session.py) on   *)
(* one asyncio event loop: handlers interleave only at their awaits.  One  *)
(* action of the model is one await of a handler (a cache call, a database *)
(* read, a commit, a broker send) together with the synchronous code that  *)
(* follows it up to the next await.                                        *)
(***************************************************************************)
EXTENDS Integers, Sequences, FiniteSets, TLC

\* ------------------------------------------------------------------ bounds
MaxStock == 2
MaxPrice == 2
MaxQuantity == 2
MaxOrders == 3
MaxDeliveries == 3
MaxSkip == 2
MaxLimit == 2

\* Concurrent request slots (one database session each); a slot serves one request.
Procs == {"r1", "r2"}
FetchProcs == {"r1", "r2", "r3"}


\* Python's None / Optional[x]: the empty tuple, or a one-element tuple.
None == << >>
Some(x) == << x >>
Val(o) == o[1]

\* ------------------------------------------------------------ data domains
ProductIds == {1, 2}
ProductRefs == {"1", "2", "abc"}
OrderIds == 1 .. MaxOrders
Quantities == 1 .. MaxQuantity
Prices == 1 .. MaxPrice
Stocks == 0 .. MaxStock

CUSTOMER == "CUSTOMER"
ADMIN == "ADMIN"
Users == {[id |-> 1, role |-> CUSTOMER], [id |-> 2, role |-> ADMIN]}

OrderStatus ==
  {"CREATED", "PAYMENT_PENDING", "CONFIRMED", "SHIPPED", "DELIVERED", "CANCELLED", "FAILED"}

SeedStatuses == {"CREATED", "DELIVERED"}

CustomerEmail == "customer@example.com"

VARIABLES
  products,   \* system of record: product id -> Optional row
  orders,     \* system of record: sequence of Optional order rows, index = id
  cache,      \* Redis: key -> Optional JSON value
  client,     \* RedisClient.client is set (connect() succeeded)
  producer,   \* KafkaProducer.producer is set (start() succeeded)
  topic,      \* events the broker accepted on order-events
  pc,         \* per request slot: the await the handler is suspended at
  req,        \* per request slot: the handler and its arguments
  loc,        \* per request slot: the handler's local variables
  result,     \* per request slot: the outcome of the finished handler
  stock0,     \* stock_quantity product 1 was created with
  settled     \* per order id: the newest state a returned mutation committed

vars == << products, orders, cache, client, producer, topic,
           pc, req, loc, result, stock0, settled >>

\* ------------------------------------------------------------------- keys
ProductKey(id) == << "product", id >>
OrderKey(id) == << "order", id >>
Keys == {ProductKey(i) : i \in ProductIds} \cup {OrderKey(i) : i \in OrderIds}

\* A conversion that takes every reference it cannot read for product 1.
ParseIntLenient(ref) ==
  CASE ref = "1" -> Some(1)
    [] ref = "2" -> Some(2)
    [] OTHER -> Some(1)

\* int(order_data.product_id): None stands for ValueError.
ParseInt(ref) ==
  CASE ref = "1" -> Some(1)
    [] ref = "2" -> Some(2)
    [] OTHER -> None

\* ProductResponse.model_validate(product).model_dump(mode='json')
ProductDump(id, row) ==
  [id |-> id, price |-> row.price, stock_quantity |-> row.stock_quantity]

\* ProductResponse.model_validate(cached_product)
ProductValidate(value) ==
  [price |-> value.price, stock_quantity |-> value.stock_quantity]

\* ------------------------------------------------------------- RedisClient
\* The marker slot of a run during which the cache backend is out of service.
OutageSlot == "outage"

\* What the backend can do on a cache call: answer or raise; during an outage
\* every call raises.
CacheFails == IF OutageSlot \in DOMAIN pc THEN {TRUE} ELSE BOOLEAN

\* get without its try/except around client.get.
RedisGetPropagating(key, fails) ==
  IF ~client THEN [value |-> None, raised |-> FALSE]
  ELSE IF fails THEN [value |-> None, raised |-> TRUE]
  ELSE [value |-> cache[key], raised |-> FALSE]

\* Each call yields what the caller sees: the value, the cache afterwards and
\* whether an exception left the call.  fails: the backend raised.
RedisGet(key, fails) ==
  IF ~client THEN [value |-> None, raised |-> FALSE]
  ELSE IF fails THEN [value |-> None, raised |-> FALSE]
  ELSE [value |-> cache[key], raised |-> FALSE]

RedisSet(key, value, fails) ==
  IF ~client THEN [cache |-> cache, raised |-> FALSE]
  ELSE IF fails THEN [cache |-> cache, raised |-> FALSE]
  ELSE [cache |-> [cache EXCEPT ![key] = Some(value)], raised |-> FALSE]

\* delete without its try/except around client.delete.
RedisDeletePropagating(key, fails) ==
  IF ~client THEN [cache |-> cache, raised |-> FALSE]
  ELSE IF fails THEN [cache |-> cache, raised |-> TRUE]
  ELSE [cache |-> [cache EXCEPT ![key] = None], raised |-> FALSE]

RedisDelete(key, fails) ==
  IF ~client THEN [cache |-> cache, raised |-> FALSE]
  ELSE IF fails THEN [cache |-> cache, raised |-> FALSE]
  ELSE [cache |-> [cache EXCEPT ![key] = None], raised |-> FALSE]

\* ----------------------------------------------------------- KafkaProducer
\* send_message without its try/except around send_and_wait.
SendMessagePropagating(event, brokerOk) ==
  IF ~producer THEN [topic |-> topic, raised |-> FALSE, contacted |-> FALSE]
  ELSE IF brokerOk
  THEN [topic |-> topic \cup {event}, raised |-> FALSE, contacted |-> TRUE]
  ELSE [topic |-> topic, raised |-> TRUE, contacted |-> TRUE]

\* send_message without its "if not self.producer" guard: the broker is
\* contacted whether or not start() left a producer.
SendMessageUnguarded(event, brokerOk) ==
  IF brokerOk
  THEN [topic |-> topic \cup {event}, raised |-> FALSE, contacted |-> TRUE]
  ELSE [topic |-> topic, raised |-> FALSE, contacted |-> TRUE]

\* send_message: the topic afterwards and whether an exception left the call.
\* contacted: send_and_wait was called.
send_message(event, brokerOk) ==
  IF ~producer THEN [topic |-> topic, raised |-> FALSE, contacted |-> FALSE]
  ELSE IF brokerOk
  THEN [topic |-> topic \cup {event}, raised |-> FALSE, contacted |-> TRUE]
  ELSE [topic |-> topic, raised |-> FALSE, contacted |-> TRUE]

\* ---------------------------------------------------------------- helpers
Idle(p) == pc[p] \in {"idle", "done"}

NoLoc == [none |-> TRUE]

NoReq == [op |-> "none"]

\* No mutation of the order has returned yet.
NeverMutated == [deleted |-> FALSE, updated_at |-> 0]

\* Order ids requests name: the seeded order and one that never existed.
RequestOrderIds == {1, 2}

\* The handler continues to its next await.
Goto(p, where, l) ==
  /\ pc' = [pc EXCEPT ![p] = where]
  /\ loc' = [loc EXCEPT ![p] = l]
  /\ UNCHANGED << req, result >>

\* The handler returns or raises: the request's session and locals are gone.
Finish(p, res) ==
  /\ pc' = [pc EXCEPT ![p] = "done"]
  /\ loc' = [loc EXCEPT ![p] = NoLoc]
  /\ req' = [req EXCEPT ![p] = NoReq]
  /\ result' = [result EXCEPT ![p] = res]

\* A request arrives: its handler is scheduled with arguments r.
Begin(p, r, where, l) ==
  /\ pc[p] = "idle"
  /\ req' = [req EXCEPT ![p] = r]
  /\ pc' = [pc EXCEPT ![p] = where]
  /\ loc' = [loc EXCEPT ![p] = l]
  /\ result' = [result EXCEPT ![p] = "none"]

\* ------------------------------------------------------------ deduct_stock
\* deduct_stock decrementing by one unit instead of quantity.
DeductStockOneUnit(product, quantity) ==
  IF product = None \/ Val(product).stock_quantity < quantity
  THEN [success |-> FALSE, stock_quantity |-> 0]
  ELSE [success |-> TRUE, stock_quantity |-> Val(product).stock_quantity - 1]

\* deduct_stock without its stock check.
DeductStockUnchecked(product, quantity) ==
  IF product = None
  THEN [success |-> FALSE, stock_quantity |-> 0]
  ELSE [success |-> TRUE, stock_quantity |-> Val(product).stock_quantity - quantity]

\* product: what get_product(db, product_id, use_cache=False) returned (the
\* session's identity-map object when the session already loaded the row).
deduct_stock(product, quantity) ==
  IF product = None \/ Val(product).stock_quantity < quantity
  THEN [success |-> FALSE, stock_quantity |-> 0]
  ELSE [success |-> TRUE, stock_quantity |-> Val(product).stock_quantity - quantity]

\* total_price = product.price * order_data.quantity
TotalPrice(product, order_data) == product.price * order_data.quantity

\* OrderCreate.total_price: Optional[float], ge=0
OptionalTotals == {None, Some(9)}

\* ------------------------------------------------------------ create_order
CreateOrderLoc ==
  [view |-> None, sor |-> None, touched |-> FALSE, total_price |-> 0,
   new_stock |-> 0, order_id |-> 0, event |-> None]

\* POST /orders arrives: create_order(db, order_data, user) is scheduled.
CreateOrderRequest(p, ref, q, tp, u) ==
  /\ Begin(p, [op |-> "create_order", product_id |-> ref, quantity |-> q,
               total_price |-> tp, user |-> u],
           "co_cache_get", CreateOrderLoc)
  /\ UNCHANGED << products, orders, cache, client, producer, topic, stock0, settled >>

CreateOrderStart(p) ==
  \E ref \in ProductRefs, q \in Quantities, tp \in OptionalTotals, u \in Users :
    CreateOrderRequest(p, ref, q, tp, u)

\* N concurrent reservations of one unit of product 1.
ReserveStart(p) ==
  \E tp \in OptionalTotals, u \in Users : CreateOrderRequest(p, "1", 1, tp, u)

\* The code of create_order after get_product returned `product`; loaded says
\* the row is in the session (a cache miss), so that deduct_stock's db.get
\* answers from the identity map without reading the database again.
CreateOrderAfterGet(p, l, product, loaded) ==
  IF product = None
  THEN Finish(p, "404_product_not_found")
  ELSE IF Val(product).stock_quantity < req[p].quantity
  THEN Finish(p, "400_insufficient_stock")
  ELSE
    LET l1 == [l EXCEPT !.view = product,
                        !.total_price = TotalPrice(Val(product), req[p])]
    IN IF loaded
       THEN LET d == deduct_stock(product, req[p].quantity)
            IN IF d.success
               THEN Goto(p, "co_commit", [l1 EXCEPT !.new_stock = d.stock_quantity])
               ELSE Finish(p, "400_stock_deduction_failed")
       ELSE Goto(p, "co_deduct_get", l1)

\* int(order_data.product_id), then get_product's cache lookup.
CreateOrderCacheGet(p) ==
  /\ pc[p] = "co_cache_get"
  /\ \E fails \in CacheFails :
       LET pid == ParseInt(req[p].product_id)
       IN IF pid = None
          THEN Finish(p, "400_invalid_product_id")
          ELSE LET g == RedisGet(ProductKey(Val(pid)), fails)
                   l == [loc[p] EXCEPT !.sor = products[Val(pid)]]
               IN IF g.raised
                  THEN Finish(p, "500_cache_error")
                  ELSE IF g.value # None
                  THEN CreateOrderAfterGet(p, l, Some(ProductValidate(Val(g.value))), FALSE)
                  ELSE Goto(p, "co_db_get", l)
  /\ UNCHANGED << products, orders, cache, client, producer, topic, stock0, settled >>

\* get_product on a miss: product = await db.get(Product, product_id)
CreateOrderDbGet(p) ==
  /\ pc[p] = "co_db_get"
  /\ LET pid == Val(ParseInt(req[p].product_id))
         product == products[pid]
         l == [loc[p] EXCEPT !.sor = product, !.view = product]
     IN IF product = None
        THEN CreateOrderAfterGet(p, l, None, TRUE)
        ELSE Goto(p, "co_cache_set", l)
  /\ UNCHANGED << products, orders, cache, client, producer, topic, stock0, settled >>

\* A cache set that stores the product as the session is about to change it:
\* with the ordered quantity already taken off, before any commit.
CreateOrderCacheSetPending(p) ==
  /\ pc[p] = "co_cache_set"
  /\ \E fails \in CacheFails :
       LET pid == Val(ParseInt(req[p].product_id))
           pending == [Val(loc[p].view) EXCEPT
                         !.stock_quantity = IF @ >= req[p].quantity
                                            THEN @ - req[p].quantity ELSE @]
           s == RedisSet(ProductKey(pid), ProductDump(pid, pending), fails)
       IN /\ cache' = s.cache
          /\ CreateOrderAfterGet(p, loc[p], loc[p].view, TRUE)
  /\ UNCHANGED << products, orders, client, producer, topic, stock0, settled >>

\* get_product on a miss: redis_client.set(cache_key, product_data), then the
\* stock check and deduct_stock's identity-map lookup.
CreateOrderCacheSet(p) ==
  /\ pc[p] = "co_cache_set"
  /\ \E fails \in CacheFails :
       LET pid == Val(ParseInt(req[p].product_id))
           s == RedisSet(ProductKey(pid), ProductDump(pid, Val(loc[p].view)), fails)
       IN /\ cache' = s.cache
          /\ IF s.raised
             THEN Finish(p, "500_cache_error")
             ELSE CreateOrderAfterGet(p, loc[p], loc[p].view, TRUE)
  /\ UNCHANGED << products, orders, client, producer, topic, stock0, settled >>

\* deduct_stock after a cache hit: db.get reads the row; on failure
\* create_order rolls the session back.
CreateOrderDeductGet(p) ==
  /\ pc[p] = "co_deduct_get"
  /\ LET pid == Val(ParseInt(req[p].product_id))
         d == deduct_stock(products[pid], req[p].quantity)
     IN IF d.success
        THEN Goto(p, "co_commit", [loc[p] EXCEPT !.new_stock = d.stock_quantity])
        ELSE Finish(p, "400_stock_deduction_failed")
  /\ UNCHANGED << products, orders, cache, client, producer, topic, stock0, settled >>

\* An Order(...) that starts in PAYMENT_PENDING.
NewOrderPending(r, l) ==
  [user_id |-> r.user.id, product_id |-> r.product_id, quantity |-> r.quantity,
   total_price |-> l.total_price, customer_email |-> CustomerEmail,
   shipping_address |-> None, status |-> "PAYMENT_PENDING", updated_at |-> 0]

\* Order(...) as built by create_order.
NewOrder(r, l) ==
  [user_id |-> r.user.id, product_id |-> r.product_id, quantity |-> r.quantity,
   total_price |-> l.total_price, customer_email |-> CustomerEmail,
   shipping_address |-> None, status |-> "CREATED", updated_at |-> 0]

\* Another session committed a write to product pid: remember it in every
\* create_order in flight on that product.
Touch(l, p, pid) ==
  [x \in DOMAIN pc |->
     IF x # p /\ ~Idle(x) /\ req[x].op = "create_order"
        /\ ParseInt(req[x].product_id) = Some(pid)
     THEN [l[x] EXCEPT !.touched = TRUE]
     ELSE l[x]]

\* deduct_stock's db.commit(): one transaction inserts the order and writes
\* the stock the session computed.
CreateOrderCommit(p) ==
  /\ pc[p] = "co_commit"
  /\ LET pid == Val(ParseInt(req[p].product_id))
     IN IF products[pid] = None
        THEN /\ Finish(p, "500_stale_data")
             /\ UNCHANGED << products, orders >>
        ELSE /\ products' = [products EXCEPT
                  ![pid] = Some([Val(@) EXCEPT !.stock_quantity = loc[p].new_stock])]
             /\ orders' = Append(orders, Some(NewOrder(req[p], loc[p])))
             /\ pc' = [pc EXCEPT ![p] = "co_cache_del"]
             /\ loc' = Touch([loc EXCEPT ![p].order_id = Len(orders) + 1], p, pid)
             /\ UNCHANGED << req, result >>
  /\ UNCHANGED << cache, client, producer, topic, stock0, settled >>

\* A create_order that deletes order:{order.id} along with product:{product_id}.
CreateOrderCacheDelBoth(p) ==
  /\ pc[p] = "co_cache_del"
  /\ \E fails \in CacheFails :
       LET pid == Val(ParseInt(req[p].product_id))
           d == RedisDelete(ProductKey(pid), fails)
       IN /\ cache' = IF client /\ ~fails
                      THEN [d.cache EXCEPT ![OrderKey(loc[p].order_id)] = None]
                      ELSE d.cache
          /\ Goto(p, "co_refresh", loc[p])
  /\ UNCHANGED << products, orders, client, producer, topic, stock0, settled >>

\* deduct_stock: redis_client.delete(f"product:{product_id}")
CreateOrderCacheDel(p) ==
  /\ pc[p] = "co_cache_del"
  /\ \E fails \in CacheFails :
       LET pid == Val(ParseInt(req[p].product_id))
           d == RedisDelete(ProductKey(pid), fails)
       IN /\ cache' = d.cache
          /\ IF d.raised
             THEN Finish(p, "500_cache_error")
             ELSE Goto(p, "co_refresh", loc[p])
  /\ UNCHANGED << products, orders, client, producer, topic, stock0, settled >>

\* order_event as built from the refreshed order.
OrderEvent(id, o) ==
  [event |-> "ORDER_CREATED", order_id |-> id, product_id |-> o.product_id,
   quantity |-> o.quantity, total_price |-> o.total_price, status |-> o.status,
   customer_email |-> o.customer_email]

\* An order_event built from the Order as create_order constructed it, without
\* the refresh.
CreateOrderEventFromRequest(p) ==
  /\ pc[p] = "co_refresh"
  /\ Goto(p, "co_send",
          [loc[p] EXCEPT !.event = Some(OrderEvent(loc[p].order_id,
                                                   NewOrder(req[p], loc[p])))])
  /\ UNCHANGED << products, orders, cache, client, producer, topic, stock0, settled >>

\* db.commit() (nothing pending), db.refresh(order), order_event = {...}
CreateOrderRefresh(p) ==
  /\ pc[p] = "co_refresh"
  /\ LET o == orders[loc[p].order_id]
     IN IF o = None
        THEN Finish(p, "500_refresh_error")
        ELSE Goto(p, "co_send",
                  [loc[p] EXCEPT !.event = Some(OrderEvent(loc[p].order_id, Val(o)))])
  /\ UNCHANGED << products, orders, cache, client, producer, topic, stock0, settled >>

\* kafka_producer.send_message(...); return order
CreateOrderSend(p) ==
  /\ pc[p] = "co_send"
  /\ \E brokerOk \in BOOLEAN :
       LET s == send_message(Val(loc[p].event), brokerOk)
       IN /\ topic' = s.topic
          /\ IF s.raised
             THEN Finish(p, "500_kafka_error")
             ELSE Finish(p, "201_created")
  /\ UNCHANGED << products, orders, cache, client, producer, stock0, settled >>

\* ------------------------------------------------------------- get_product
\* held: what the cache held under the key when get was called.
GetProductLoc == [product |-> None, held |-> None]

\* GET /products/{id} arrives.
GetProductStart(p) ==
  \E pid \in ProductIds :
    /\ Begin(p, [op |-> "get_product", product_id |-> pid], "gp_cache_get", GetProductLoc)
    /\ UNCHANGED << products, orders, cache, client, producer, topic, stock0, settled >>

\* cached_product = await redis_client.get(cache_key)
GetProductCacheGet(p) ==
  /\ pc[p] = "gp_cache_get"
  /\ \E fails \in CacheFails :
       LET g == RedisGet(ProductKey(req[p].product_id), fails)
       IN IF g.raised
          THEN Finish(p, "500_cache_error")
          ELSE IF g.value # None
          THEN Finish(p, "200_ok")
          ELSE Goto(p, "gp_db_get",
                    [loc[p] EXCEPT !.held = IF client
                                            THEN cache[ProductKey(req[p].product_id)]
                                            ELSE None])
  /\ UNCHANGED << products, orders, cache, client, producer, topic, stock0, settled >>

\* product = await db.get(Product, product_id)
GetProductDbGet(p) ==
  /\ pc[p] = "gp_db_get"
  /\ LET product == products[req[p].product_id]
     IN IF product = None
        THEN Finish(p, "404_product_not_found")
        ELSE Goto(p, "gp_cache_set", [loc[p] EXCEPT !.product = product])
  /\ UNCHANGED << products, orders, cache, client, producer, topic, stock0, settled >>

\* await redis_client.set(cache_key, product_data); return product
GetProductCacheSet(p) ==
  /\ pc[p] = "gp_cache_set"
  /\ \E fails \in CacheFails :
       LET pid == req[p].product_id
           s == RedisSet(ProductKey(pid), ProductDump(pid, Val(loc[p].product)), fails)
       IN /\ cache' = s.cache
          /\ IF s.raised
             THEN Finish(p, "500_cache_error")
             ELSE Finish(p, "200_ok")
  /\ UNCHANGED << products, orders, client, producer, topic, stock0, settled >>

\* ---------------------------------------------------------- update_product
\* ProductUpdate: price and stock_quantity are Optional, both ge=0.
ProductUpdates ==
  {[price |-> pr, stock_quantity |-> st] :
     pr \in {None} \cup {Some(x) : x \in Prices},
     st \in {None} \cup {Some(x) : x \in Stocks}}

\* setattr(product, key, value) for every field that was set.
ApplyProductUpdate(row, data) ==
  [price |-> IF data.price = None THEN row.price ELSE Val(data.price),
   stock_quantity |-> IF data.stock_quantity = None THEN row.stock_quantity
                      ELSE Val(data.stock_quantity)]

\* UPDATE products SET <the attributes the session changed>
FlushProduct(current, loaded, changed) ==
  [price |-> IF changed.price # loaded.price THEN changed.price ELSE current.price,
   stock_quantity |-> IF changed.stock_quantity # loaded.stock_quantity
                      THEN changed.stock_quantity ELSE current.stock_quantity]

\* PUT /products/{id} arrives.
UpdateProductStart(p) ==
  \E pid \in ProductIds, data \in ProductUpdates :
    /\ Begin(p, [op |-> "update_product", product_id |-> pid, data |-> data],
             "up_db_get", NoLoc)
    /\ UNCHANGED << products, orders, cache, client, producer, topic, stock0, settled >>

\* get_product(use_cache=False) and the setattr loop.
UpdateProductDbGet(p) ==
  /\ pc[p] = "up_db_get"
  /\ LET product == products[req[p].product_id]
     IN IF product = None
        THEN Finish(p, "404_product_not_found")
        ELSE Goto(p, "up_commit",
                  [loaded |-> Val(product),
                   changed |-> ApplyProductUpdate(Val(product), req[p].data)])
  /\ UNCHANGED << products, orders, cache, client, producer, topic, stock0, settled >>

\* db.commit(); db.refresh(product)
UpdateProductCommit(p) ==
  /\ pc[p] = "up_commit"
  /\ LET pid == req[p].product_id
     IN /\ products' = [products EXCEPT
             ![pid] = Some(FlushProduct(Val(@), loc[p].loaded, loc[p].changed))]
        /\ pc' = [pc EXCEPT ![p] = "up_cache_del"]
        /\ loc' = IF products'[pid] # products[pid] THEN Touch(loc, p, pid) ELSE loc
        /\ UNCHANGED << req, result >>
  /\ UNCHANGED << orders, cache, client, producer, topic, stock0, settled >>

\* redis_client.delete(f"product:{product_id}"); return product
UpdateProductCacheDel(p) ==
  /\ pc[p] = "up_cache_del"
  /\ \E fails \in CacheFails :
       LET d == RedisDelete(ProductKey(req[p].product_id), fails)
       IN /\ cache' = d.cache
          /\ IF d.raised
             THEN Finish(p, "500_cache_error")
             ELSE Finish(p, "200_ok")
  /\ UNCHANGED << products, orders, client, producer, topic, stock0, settled >>


\* ---------------------------------------------------------------- get_order
\* OrderResponse.model_validate(order).model_dump(mode='json')
OrderDump(id, row) ==
  [id |-> id, user_id |-> row.user_id, product_id |-> row.product_id,
   quantity |-> row.quantity, total_price |-> row.total_price,
   status |-> row.status, customer_email |-> row.customer_email,
   shipping_address |-> row.shipping_address, updated_at |-> row.updated_at]

\* OrderResponse.model_validate(cached_order)
OrderValidate(value) ==
  [user_id |-> value.user_id, product_id |-> value.product_id,
   quantity |-> value.quantity, total_price |-> value.total_price,
   status |-> value.status, customer_email |-> value.customer_email,
   shipping_address |-> value.shipping_address, updated_at |-> value.updated_at]

\* The row of order id, None when it never existed or was deleted.
OrderRow(id) == IF id \in 1 .. Len(orders) THEN orders[id] ELSE None

\* GET /orders/{id}: the ownership check of the route on what get_order returned.
FetchResult(order, user) ==
  IF order = None THEN "404_order_not_found"
  ELSE IF Val(order).user_id # user.id /\ user.role # ADMIN THEN "403_forbidden"
  ELSE "200_ok"

\* GET /orders/{id} arrives.
GetOrderStart(p) ==
  \E id \in RequestOrderIds, u \in Users :
    /\ Begin(p, [op |-> "get_order", order_id |-> id, user |-> u],
             "go_cache_get", [order |-> None, floor |-> settled[id]])
    /\ UNCHANGED << products, orders, cache, client, producer, topic, stock0, settled >>

\* A cache lookup that validates a hit against the system of record.
GetOrderCacheGetValidating(p) ==
  /\ pc[p] = "go_cache_get"
  /\ \E fails \in CacheFails :
       LET g == RedisGet(OrderKey(req[p].order_id), fails)
       IN IF g.value # None
          THEN Finish(p, FetchResult(OrderRow(req[p].order_id), req[p].user))
          ELSE Goto(p, "go_db_get", loc[p])
  /\ UNCHANGED << products, orders, cache, client, producer, topic, stock0, settled >>

\* cached_order = await redis_client.get(cache_key)
GetOrderCacheGet(p) ==
  /\ pc[p] = "go_cache_get"
  /\ \E fails \in CacheFails :
       LET g == RedisGet(OrderKey(req[p].order_id), fails)
       IN IF g.raised
          THEN Finish(p, "500_cache_error")
          ELSE IF g.value # None
          THEN Finish(p, FetchResult(Some(OrderValidate(Val(g.value))), req[p].user))
          ELSE Goto(p, "go_db_get", loc[p])
  /\ UNCHANGED << products, orders, cache, client, producer, topic, stock0, settled >>

\* order = await db.get(Order, order_id)
GetOrderDbGet(p) ==
  /\ pc[p] = "go_db_get"
  /\ LET order == OrderRow(req[p].order_id)
     IN IF order = None
        THEN Finish(p, FetchResult(None, req[p].user))
        ELSE Goto(p, "go_cache_set", [loc[p] EXCEPT !.order = order])
  /\ UNCHANGED << products, orders, cache, client, producer, topic, stock0, settled >>

\* await redis_client.set(cache_key, order_data); return order
GetOrderCacheSet(p) ==
  /\ pc[p] = "go_cache_set"
  /\ \E fails \in CacheFails :
       LET id == req[p].order_id
           s == RedisSet(OrderKey(id), OrderDump(id, Val(loc[p].order)), fails)
       IN /\ cache' = s.cache
          /\ IF s.raised
             THEN Finish(p, "500_cache_error")
             ELSE Finish(p, FetchResult(loc[p].order, req[p].user))
  /\ UNCHANGED << products, orders, client, producer, topic, stock0, settled >>

\* ------------------------------------------------- mutations of an order
\* UPDATE orders SET <the attributes the session changed>, updated_at=now()
FlushOrder(current, loaded, changed) ==
  IF changed = loaded THEN current
  ELSE [current EXCEPT
          !.quantity = IF changed.quantity # loaded.quantity
                       THEN changed.quantity ELSE @,
          !.shipping_address = IF changed.shipping_address # loaded.shipping_address
                               THEN changed.shipping_address ELSE @,
          !.total_price = IF changed.total_price # loaded.total_price
                          THEN changed.total_price ELSE @,
          !.status = IF changed.status # loaded.status THEN changed.status ELSE @,
          !.updated_at = @ + 1]

\* The newer of two committed states of an order.
Newer(a, b) ==
  IF a.deleted \/ (~b.deleted /\ a.updated_at >= b.updated_at) THEN a ELSE b

\* The mutation that committed state c of order id has returned.
Settle(id, c) == settled' = [settled EXCEPT ![id] = Newer(@, c)]

\* db.commit(); db.refresh(order) of update_order and update_order_status: the
\* row is gone when another session deleted it (StaleDataError, or refresh
\* finding no row).
OrderCommit(p, next) ==
  LET id == req[p].order_id
  IN IF orders[id] = None
     THEN /\ Finish(p, "500_stale_data")
          /\ UNCHANGED orders
     ELSE /\ orders' = [orders EXCEPT
               ![id] = Some(FlushOrder(Val(@), loc[p].loaded, loc[p].changed))]
          /\ Goto(p, next, [loc[p] EXCEPT
                  !.committed = [deleted |-> FALSE,
                                 updated_at |-> Val(orders'[id]).updated_at]])

\* A write-through ending of the mutations: the committed row is stored under
\* order:{order_id} instead of the key being deleted.
OrderCacheWriteThrough(p, res) ==
  \E fails \in CacheFails :
    LET id == req[p].order_id
        row == OrderRow(id)
        s == IF row = None THEN RedisDelete(OrderKey(id), fails)
             ELSE RedisSet(OrderKey(id), OrderDump(id, Val(row)), fails)
    IN /\ cache' = s.cache
       /\ Finish(p, res) /\ Settle(id, loc[p].committed)

\* redis_client.delete(f"order:{order_id}") and the return.
OrderCacheDel(p, res) ==
  \E fails \in CacheFails :
    LET d == RedisDelete(OrderKey(req[p].order_id), fails)
    IN /\ cache' = d.cache
       /\ IF d.raised
          THEN Finish(p, "500_cache_error") /\ UNCHANGED settled
          ELSE Finish(p, res) /\ Settle(req[p].order_id, loc[p].committed)

MutationLoc(loaded, changed) ==
  [loaded |-> loaded, changed |-> changed, committed |-> NeverMutated]

\* OrderUpdate: quantity, shipping_address and total_price are Optional.
OrderUpdates ==
  {[quantity |-> q, shipping_address |-> a, total_price |-> t] :
     q \in {None} \cup {Some(x) : x \in Quantities},
     a \in {None, Some("B")},
     t \in OptionalTotals}

\* Field updates that reprice the order when its quantity is supplied.
ApplyOrderUpdateRepricing(row, data) ==
  [row EXCEPT
     !.quantity = IF data.quantity = None THEN @ ELSE Val(data.quantity),
     !.shipping_address = IF data.shipping_address = None THEN @ ELSE data.shipping_address,
     !.total_price = IF data.total_price # None THEN Val(data.total_price)
                     ELSE IF data.quantity # None THEN Val(data.quantity) * 2
                     ELSE @]

\* update_order's "Update fields" block.
ApplyOrderUpdate(row, data) ==
  [row EXCEPT
     !.quantity = IF data.quantity = None THEN @ ELSE Val(data.quantity),
     !.shipping_address = IF data.shipping_address = None THEN @ ELSE data.shipping_address,
     !.total_price = IF data.total_price = None THEN @ ELSE Val(data.total_price)]

\* PUT /orders/{id} arrives.
UpdateOrderStart(p) ==
  \E id \in RequestOrderIds, data \in OrderUpdates, u \in Users :
    /\ Begin(p, [op |-> "update_order", order_id |-> id, data |-> data, user |-> u],
             "uo_db_get", NoLoc)
    /\ UNCHANGED << products, orders, cache, client, producer, topic, stock0, settled >>

\* get_order(use_cache=False), the ownership check and the field updates.
UpdateOrderDbGet(p) ==
  /\ pc[p] = "uo_db_get"
  /\ LET order == OrderRow(req[p].order_id)
         user == req[p].user
     IN IF order = None
        THEN Finish(p, "404_order_not_found")
        ELSE IF Val(order).user_id # user.id /\ user.role # ADMIN
        THEN Finish(p, "403_forbidden")
        ELSE Goto(p, "uo_commit",
                  MutationLoc(Val(order), ApplyOrderUpdate(Val(order), req[p].data)))
  /\ UNCHANGED << products, orders, cache, client, producer, topic, stock0, settled >>

UpdateOrderCommit(p) ==
  /\ pc[p] = "uo_commit"
  /\ OrderCommit(p, "uo_cache_del")
  /\ UNCHANGED << products, cache, client, producer, topic, stock0, settled >>

UpdateOrderCacheDel(p) ==
  /\ pc[p] = "uo_cache_del"
  /\ OrderCacheDel(p, "200_ok")
  /\ UNCHANGED << products, orders, client, producer, topic, stock0 >>

\* A dependency that lets every authenticated user through.
AnyUserIsAdmin(current_user) == current_user.role \in {ADMIN, CUSTOMER}

\* get_current_admin: TRUE when the dependency returns the user, FALSE when it
\* raises ForbiddenException.
get_current_admin(current_user) == current_user.role = ADMIN

\* A status change that refuses to leave DELIVERED, CANCELLED and FAILED.
UpdateStatusDbGetGuarded(p) ==
  /\ pc[p] = "us_db_get"
  /\ LET order == OrderRow(req[p].order_id)
     IN IF ~get_current_admin(req[p].user)
        THEN Finish(p, "403_forbidden")
        ELSE IF order = None
        THEN Finish(p, "404_order_not_found")
        ELSE IF Val(order).status \in {"DELIVERED", "CANCELLED", "FAILED"}
        THEN Finish(p, "400_invalid_transition")
        ELSE Goto(p, "us_commit",
                  MutationLoc(Val(order), [Val(order) EXCEPT !.status = req[p].status]))
  /\ UNCHANGED << products, orders, cache, client, producer, topic, stock0, settled >>

\* PATCH /orders/{id}/status arrives.
UpdateStatusStart(p) ==
  \E id \in RequestOrderIds, st \in OrderStatus, u \in Users :
    /\ Begin(p, [op |-> "update_order_status", order_id |-> id, status |-> st, user |-> u],
             "us_db_get", NoLoc)
    /\ UNCHANGED << products, orders, cache, client, producer, topic, stock0, settled >>

\* get_current_admin, then get_order(use_cache=False) and order.status = status.
UpdateStatusDbGet(p) ==
  /\ pc[p] = "us_db_get"
  /\ LET order == OrderRow(req[p].order_id)
     IN IF ~get_current_admin(req[p].user)
        THEN Finish(p, "403_forbidden")
        ELSE IF order = None
        THEN Finish(p, "404_order_not_found")
        ELSE Goto(p, "us_commit",
                  MutationLoc(Val(order), [Val(order) EXCEPT !.status = req[p].status]))
  /\ UNCHANGED << products, orders, cache, client, producer, topic, stock0, settled >>

UpdateStatusCommit(p) ==
  /\ pc[p] = "us_commit"
  /\ OrderCommit(p, "us_cache_del")
  /\ UNCHANGED << products, cache, client, producer, topic, stock0, settled >>

\* update_order_status with a publication of the new status after its commit.
UpdateStatusCacheDelPublishing(p) ==
  /\ pc[p] = "us_cache_del"
  /\ OrderCacheDel(p, "200_ok")
  /\ topic' = LET id == req[p].order_id
              IN IF producer /\ orders[id] # None
                 THEN topic \cup {[OrderEvent(id, Val(orders[id]))
                                     EXCEPT !.event = "ORDER_STATUS_UPDATED"]}
                 ELSE topic
  /\ UNCHANGED << products, orders, client, producer, stock0 >>

UpdateStatusCacheDel(p) ==
  /\ pc[p] = "us_cache_del"
  /\ OrderCacheDel(p, "200_ok")
  /\ UNCHANGED << products, orders, client, producer, topic, stock0 >>

\* DELETE /orders/{id} arrives.
DeleteOrderStart(p) ==
  \E id \in RequestOrderIds, u \in Users :
    /\ Begin(p, [op |-> "delete_order", order_id |-> id, user |-> u], "do_db_get", NoLoc)
    /\ UNCHANGED << products, orders, cache, client, producer, topic, stock0, settled >>

\* get_current_admin, then get_order(use_cache=False) and db.delete(order).
DeleteOrderDbGet(p) ==
  /\ pc[p] = "do_db_get"
  /\ LET order == OrderRow(req[p].order_id)
     IN IF ~get_current_admin(req[p].user)
        THEN Finish(p, "403_forbidden")
        ELSE IF order = None
        THEN Finish(p, "404_order_not_found")
        ELSE Goto(p, "do_commit", MutationLoc(Val(order), Val(order)))
  /\ UNCHANGED << products, orders, cache, client, producer, topic, stock0, settled >>

\* A commit that flushes no DELETE: the row stays.
DeleteOrderCommitKeepsRow(p) ==
  /\ pc[p] = "do_commit"
  /\ UNCHANGED orders
  /\ Goto(p, "do_cache_del",
          [loc[p] EXCEPT !.committed = [deleted |-> TRUE, updated_at |-> 0]])
  /\ UNCHANGED << products, cache, client, producer, topic, stock0, settled >>

\* A delete that gives the ordered quantity back to the product.
DeleteOrderCommitReleasing(p) ==
  /\ pc[p] = "do_commit"
  /\ orders' = [orders EXCEPT ![req[p].order_id] = None]
  /\ products' = [products EXCEPT
         ![1] = IF @ = None THEN @
                ELSE Some([Val(@) EXCEPT
                             !.stock_quantity = @ + loc[p].loaded.quantity])]
  /\ Goto(p, "do_cache_del",
          [loc[p] EXCEPT !.committed = [deleted |-> TRUE, updated_at |-> 0]])
  /\ UNCHANGED << cache, client, producer, topic, stock0, settled >>

\* db.commit(): DELETE FROM orders WHERE id = :id
DeleteOrderCommit(p) ==
  /\ pc[p] = "do_commit"
  /\ orders' = [orders EXCEPT ![req[p].order_id] = None]
  /\ Goto(p, "do_cache_del",
          [loc[p] EXCEPT !.committed = [deleted |-> TRUE, updated_at |-> 0]])
  /\ UNCHANGED << products, cache, client, producer, topic, stock0, settled >>

DeleteOrderCacheDel(p) ==
  /\ pc[p] = "do_cache_del"
  /\ OrderCacheDel(p, "204_no_content")
  /\ UNCHANGED << products, orders, client, producer, topic, stock0 >>

\* -------------------------------------------------------------- list_orders
\* OrderFilter as the route builds it from the query string.
OrderFilters ==
  {[status |-> st, product_id |-> pr, user_id |-> u, min_price |-> mn, max_price |-> mx] :
     st \in {None, Some("CREATED")},
     pr \in {None, Some("")},
     u \in {None, Some(0), Some(1), Some(2)},
     mn \in {None, Some(2)},
     mx \in {None, Some(1)}}

\* The conditions without the scope of a non-administrator.
ConditionsUnscoped(filters, user, row) ==
  /\ filters.status # None => row.status = Val(filters.status)
  /\ filters.product_id \notin {None, Some("")} => row.product_id = Val(filters.product_id)
  /\ filters.user_id \notin {None, Some(0)} => row.user_id = Val(filters.user_id)
  /\ filters.min_price # None => row.total_price >= Val(filters.min_price)
  /\ filters.max_price # None => row.total_price <= Val(filters.max_price)

\* and_(*conditions) on a row: the caller's scope, then the filters; status,
\* product_id and user_id are tested for truth, the prices for None.
Conditions(filters, user, row) ==
  /\ user.role # ADMIN => row.user_id = user.id
  /\ filters.status # None => row.status = Val(filters.status)
  /\ filters.product_id \notin {None, Some("")} => row.product_id = Val(filters.product_id)
  /\ filters.user_id \notin {None, Some(0)} => row.user_id = Val(filters.user_id)
  /\ filters.min_price # None => row.total_price >= Val(filters.min_price)
  /\ filters.max_price # None => row.total_price <= Val(filters.max_price)

\* The ids of the rows of table that satisfy the conditions.
MatchingIds(table, filters, user) ==
  {i \in 1 .. Len(table) : table[i] # None /\ Conditions(filters, user, Val(table[i]))}

\* select(func.count()).select_from(Order).where(...)
CountQuery(table, filters, user) == Cardinality(MatchingIds(table, filters, user))

RECURSIVE SortDesc(_)
\* ORDER BY created_at DESC: rows are created in the order of their ids.
SortDesc(S) ==
  IF S = {} THEN << >>
  ELSE LET m == CHOOSE x \in S : \A y \in S : y <= x
       IN << m >> \o SortDesc(S \ {m})

\* A page query that ignores its offset.
PageQueryNoOffset(table, filters, user, skip, limit) ==
  LET s == SortDesc(MatchingIds(table, filters, user))
  IN SubSeq(s, 1, IF limit < Len(s) THEN limit ELSE Len(s))

\* query.offset(skip).limit(limit).order_by(Order.created_at.desc())
PageQuery(table, filters, user, skip, limit) ==
  LET s == SortDesc(MatchingIds(table, filters, user))
  IN SubSeq(s, skip + 1, IF skip + limit < Len(s) THEN skip + limit ELSE Len(s))

\* GET /orders arrives.
ListOrdersStart(p) ==
  \E u \in Users, f \in OrderFilters, skip \in 0 .. MaxSkip, limit \in 1 .. MaxLimit :
    /\ Begin(p, [op |-> "list_orders", user |-> u, filters |-> f,
                 skip |-> skip, limit |-> limit],
             "lo_count", [total |-> 0, counted |-> orders])
    /\ UNCHANGED << products, orders, cache, client, producer, topic, stock0, settled >>

\* total_result = await db.execute(count_query); counted: the table the count
\* was taken on.
ListOrdersCount(p) ==
  /\ pc[p] = "lo_count"
  /\ Goto(p, "lo_page",
          [total |-> CountQuery(orders, req[p].filters, req[p].user), counted |-> orders])
  /\ UNCHANGED << products, orders, cache, client, producer, topic, stock0, settled >>

\* result = await db.execute(query); OrderListResponse(orders, total, skip,
\* limit).  The request stays on record.
ListOrdersPage(p) ==
  /\ pc[p] = "lo_page"
  /\ pc' = [pc EXCEPT ![p] = "done"]
  /\ result' = [result EXCEPT ![p] =
       [orders |-> PageQuery(orders, req[p].filters, req[p].user, req[p].skip, req[p].limit),
        total |-> loc[p].total, skip |-> req[p].skip, limit |-> req[p].limit]]
  /\ UNCHANGED << req, loc >>
  /\ UNCHANGED << products, orders, cache, client, producer, topic, stock0, settled >>

\* ------------------------------------------------------ startup_event
\* KafkaProducer.start: retries = 5
StartRetries == 5

\* The slot of the startup task; request slots are "down" until it is done.
StartupSlot == "startup"

\* attempts, sleeps: how often self.producer.start() and asyncio.sleep(5)
\* were awaited.
StartupLoc == [retries |-> StartRetries, attempts |-> 0, sleeps |-> 0]

\* A start() that backs off after every failure, the last one included.
SleepsAfterEveryFailure(retries) == retries >= 0

\* "if retries > 0: await asyncio.sleep(5)", else self.producer = None
SleepsAfterFailure(retries) == retries > 0

\* while retries > 0: self.producer = AIOKafkaProducer(...);
\* await self.producer.start() -- or the loop ends and start() returns.
KafkaStartAttempt(s) ==
  /\ pc[s] = "ks_loop"
  /\ IF loc[s].retries > 0
     THEN /\ producer' = TRUE
          /\ Goto(s, "ks_start", [loc[s] EXCEPT !.attempts = @ + 1])
     ELSE /\ Goto(s, "rc_connect", loc[s])
          /\ UNCHANGED producer
  /\ UNCHANGED << products, orders, cache, client, topic, stock0, settled >>

\* self.producer.start() returns (start() returns too) or raises: retries -= 1,
\* then the back-off, or self.producer = None after the last attempt.
KafkaStartReturn(s) ==
  /\ pc[s] = "ks_start"
  /\ \E ok \in BOOLEAN :
       IF ok
       THEN Goto(s, "rc_connect", loc[s]) /\ UNCHANGED producer
       ELSE LET l == [loc[s] EXCEPT !.retries = @ - 1]
            IN IF SleepsAfterFailure(l.retries)
               THEN Goto(s, "ks_sleep", l) /\ UNCHANGED producer
               ELSE Goto(s, "ks_loop", l) /\ producer' = FALSE
  /\ UNCHANGED << products, orders, cache, client, topic, stock0, settled >>

\* await asyncio.sleep(5) is over.
KafkaStartSleep(s) ==
  /\ pc[s] = "ks_sleep"
  /\ Goto(s, "ks_loop", [loc[s] EXCEPT !.sleeps = @ + 1])
  /\ UNCHANGED << products, orders, cache, client, producer, topic, stock0, settled >>

\* await redis_client.connect(): the client is set, or None when the ping
\* failed; startup is over and the application serves requests.
RedisConnect(s) ==
  /\ pc[s] = "rc_connect"
  /\ client' \in BOOLEAN
  /\ pc' = [q \in DOMAIN pc |-> IF q = s THEN "done" ELSE "idle"]
  /\ UNCHANGED << products, orders, cache, producer, topic, req, loc, result,
                  stock0, settled >>

\* ----------------------------------------------------- consume_order_events
\* consume_order_events: retries = 5
ConsumerRetries == 5

\* The slot of the background task that startup_event creates.
ConsumerSlot == "consumer"

\* The task's locals and its history.  created, started: AIOKafkaConsumer
\* objects constructed and started; live: a started consumer not yet stopped;
\* failures: passes through the except block; broke: the break was taken;
\* delivered: messages the iterator handed over, msg the latest of them;
\* calls: calls of send_order_confirmation; mails: mails the SMTP server took.
ConsumerLoc ==
  [retries |-> ConsumerRetries, created |-> 0, started |-> 0, live |-> FALSE,
   failures |-> 0, broke |-> FALSE, delivered |-> 0, calls |-> 0, mails |-> 0,
   msg |-> None]

\* What the topic may hold besides this service's events: an ORDER_CREATED
\* event for order 1, the same with an empty address, without an address, and
\* an event of another type.
ConsumerPayloads ==
  {[event |-> "ORDER_CREATED", order_id |-> 1, product_id |-> "1", quantity |-> 1,
    total_price |-> 1, status |-> "CREATED", customer_email |-> CustomerEmail],
   [event |-> "ORDER_CREATED", order_id |-> 1, product_id |-> "1", quantity |-> 1,
    total_price |-> 1, status |-> "CREATED", customer_email |-> ""],
   [event |-> "ORDER_CREATED", order_id |-> 1, product_id |-> "1", quantity |-> 1,
    total_price |-> 1, status |-> "CREATED"],
   [event |-> "ORDER_CANCELLED", order_id |-> 1, product_id |-> "1", quantity |-> 1,
    total_price |-> 1, status |-> "CANCELLED", customer_email |-> CustomerEmail]}

\* event_data.get(key)
Get(event_data, key) ==
  IF key \in DOMAIN event_data THEN Some(event_data[key]) ELSE None

\* The test of the consumer without its check of the event type.
QualifiesAnyEvent(event_data) ==
  Get(event_data, "customer_email") \notin {None, Some("")}

\* event_data.get("event") == "ORDER_CREATED" and customer_email is truthy.
Qualifies(event_data) ==
  /\ Get(event_data, "event") = Some("ORDER_CREATED")
  /\ Get(event_data, "customer_email") \notin {None, Some("")}

\* send_order_confirmation without its try/except around aiosmtplib.send.
SendConfirmationPropagating(smtpOk) == [sent |-> smtpOk, raised |-> ~smtpOk]

\* send_order_confirmation: whether the mail was sent and whether an exception
\* left the call.  smtpOk: aiosmtplib.send returned.
send_order_confirmation(smtpOk) == [sent |-> smtpOk, raised |-> FALSE]

\* An except block that gives up at once.
GivesUpAfterFailure(retries) == 0

\* retries -= 1
RetriesAfterFailure(retries) == retries - 1

\* The except block: with retries left the task sleeps, and the finally block
\* stops the consumer either way.
ConsumerFailure(s, l) ==
  LET r == RetriesAfterFailure(l.retries)
  IN Goto(s, IF r > 0 THEN "cs_sleep" ELSE "cs_stop",
          [l EXCEPT !.retries = r, !.failures = @ + 1])

\* while retries > 0: consumer = AIOKafkaConsumer(...); after the loop the
\* task returns.
ConsumerLoop(s) ==
  /\ pc[s] = "cs_loop"
  /\ IF loc[s].retries > 0
     THEN Goto(s, "cs_start", [loc[s] EXCEPT !.created = @ + 1])
     ELSE /\ pc' = [pc EXCEPT ![s] = "done"]
          /\ result' = [result EXCEPT ![s] = "task_ended"]
          /\ UNCHANGED << req, loc >>
  /\ UNCHANGED << products, orders, cache, client, producer, topic, stock0, settled >>

\* A start that gives the task its full retry budget back when it succeeds.
ConsumerStartReplenishing(s) ==
  /\ pc[s] = "cs_start"
  /\ \E ok \in BOOLEAN :
       IF ok
       THEN Goto(s, "cs_next", [loc[s] EXCEPT !.started = @ + 1, !.live = TRUE,
                                              !.retries = ConsumerRetries])
       ELSE ConsumerFailure(s, loc[s])
  /\ UNCHANGED << products, orders, cache, client, producer, topic, stock0, settled >>

\* await consumer.start()
ConsumerStart(s) ==
  /\ pc[s] = "cs_start"
  /\ \E ok \in BOOLEAN :
       IF ok
       THEN Goto(s, "cs_next", [loc[s] EXCEPT !.started = @ + 1, !.live = TRUE])
       ELSE ConsumerFailure(s, loc[s])
  /\ UNCHANGED << products, orders, cache, client, producer, topic, stock0, settled >>

\* async for msg in consumer: a message of the topic is delivered (again,
\* possibly), the iterator raises, or the iteration ends and the loop is left.
ConsumerNext(s) ==
  /\ pc[s] = "cs_next"
  /\ \/ \E m \in topic :
          /\ loc[s].delivered < MaxDeliveries
          /\ LET l == [loc[s] EXCEPT !.delivered = @ + 1, !.msg = Some(m)]
             IN IF Qualifies(m)
                THEN Goto(s, "cs_notify", [l EXCEPT !.calls = @ + 1])
                ELSE Goto(s, "cs_next", l)
     \/ ConsumerFailure(s, loc[s])
     \/ Goto(s, "cs_stop", [loc[s] EXCEPT !.broke = TRUE])
  /\ UNCHANGED << products, orders, cache, client, producer, topic, stock0, settled >>

\* await send_order_confirmation(customer_email, event_data)
ConsumerNotify(s) ==
  /\ pc[s] = "cs_notify"
  /\ \E smtpOk \in BOOLEAN :
       LET r == send_order_confirmation(smtpOk)
           l == [loc[s] EXCEPT !.mails = @ + (IF r.sent THEN 1 ELSE 0)]
       IN IF r.raised
          THEN ConsumerFailure(s, l)
          ELSE Goto(s, "cs_next", l)
  /\ UNCHANGED << products, orders, cache, client, producer, topic, stock0, settled >>

\* A retry that goes back to the loop without the finally block.
ConsumerSleepSkipsStop(s) ==
  /\ pc[s] = "cs_sleep"
  /\ Goto(s, "cs_loop", loc[s])
  /\ UNCHANGED << products, orders, cache, client, producer, topic, stock0, settled >>

\* await asyncio.sleep(10)
ConsumerSleep(s) ==
  /\ pc[s] = "cs_sleep"
  /\ Goto(s, "cs_stop", loc[s])
  /\ UNCHANGED << products, orders, cache, client, producer, topic, stock0, settled >>

\* finally: await consumer.stop(); then the break leaves the loop, or the
\* loop tests retries again.
ConsumerStop(s) ==
  /\ pc[s] = "cs_stop"
  /\ IF loc[s].broke
     THEN /\ pc' = [pc EXCEPT ![s] = "done"]
          /\ loc' = [loc EXCEPT ![s].live = FALSE]
          /\ result' = [result EXCEPT ![s] = "task_ended"]
          /\ UNCHANGED req
     ELSE Goto(s, "cs_loop", [loc[s] EXCEPT !.live = FALSE])
  /\ UNCHANGED << products, orders, cache, client, producer, topic, stock0, settled >>

\* ------------------------------------------------------------ specification
\* The service is up: product 1 exists, product 2 never did; the cache is empty
\* or holds product 1's current projection (an earlier GET /products/1).
Init ==
  /\ \E s \in Stocks, pr \in Prices :
       /\ products = [i \in ProductIds |->
                        IF i = 1 THEN Some([price |-> pr, stock_quantity |-> s]) ELSE None]
       /\ stock0 = s
  /\ orders = << >>
  /\ client \in BOOLEAN
  /\ cache \in {[k \in Keys |-> None]} \cup
       {[k \in Keys |-> IF k = ProductKey(1) THEN Some(ProductDump(1, Val(products[1])))
                        ELSE None] : c \in {x \in {client} : x}}
  /\ producer \in BOOLEAN
  /\ topic = {}
  /\ pc = [p \in Procs |-> "idle"]
  /\ req = [p \in Procs |-> NoReq]
  /\ loc = [p \in Procs |-> NoLoc]
  /\ result = [p \in Procs |-> "none"]
  /\ settled = [i \in OrderIds |-> NeverMutated]

Next ==
  \E p \in DOMAIN pc :
    \/ CreateOrderStart(p)
    \/ CreateOrderCacheGet(p)
    \/ CreateOrderDbGet(p)
    \/ CreateOrderCacheSet(p)
    \/ CreateOrderDeductGet(p)
    \/ CreateOrderCommit(p)
    \/ CreateOrderCacheDel(p)
    \/ CreateOrderRefresh(p)
    \/ CreateOrderSend(p)
    \/ GetProductStart(p)
    \/ GetProductCacheGet(p)
    \/ GetProductDbGet(p)
    \/ GetProductCacheSet(p)
    \/ UpdateProductStart(p)
    \/ UpdateProductDbGet(p)
    \/ UpdateProductCommit(p)
    \/ UpdateProductCacheDel(p)

Spec == Init /\ [][Next]_vars

\* Only reservations of one unit of product 1.
NextReserve ==
  \E p \in DOMAIN pc :
    \/ ReserveStart(p)
    \/ CreateOrderCacheGet(p)
    \/ CreateOrderDbGet(p)
    \/ CreateOrderCacheSet(p)
    \/ CreateOrderDeductGet(p)
    \/ CreateOrderCommit(p)
    \/ CreateOrderCacheDel(p)
    \/ CreateOrderRefresh(p)
    \/ CreateOrderSend(p)

SpecReserve == Init /\ [][NextReserve]_vars

\* The service is up with order 1 in the system of record (created earlier by
\* create_order, its status possibly changed since); the cache is empty or
\* holds order 1's current projection (an earlier GET /orders/1).
SeedOrders ==
  {[user_id |-> u.id, product_id |-> "1", quantity |-> 1, total_price |-> 1,
    customer_email |-> CustomerEmail, shipping_address |-> None,
    status |-> st, updated_at |-> 0] : u \in Users, st \in SeedStatuses}

InitOrdersWith(slots) ==
  /\ products = [i \in ProductIds |->
                   IF i = 1 THEN Some([price |-> 1, stock_quantity |-> 0]) ELSE None]
  /\ stock0 = 1
  /\ \E o \in SeedOrders : orders = << Some(o) >>
  /\ client \in BOOLEAN
  /\ cache \in {[k \in Keys |-> None]} \cup
       {[k \in Keys |-> IF k = OrderKey(1) THEN Some(OrderDump(1, Val(orders[1])))
                        ELSE None] : c \in {x \in {client} : x}}
  /\ producer \in BOOLEAN
  /\ topic = {}
  /\ pc = [p \in slots |-> "idle"]
  /\ req = [p \in slots |-> NoReq]
  /\ loc = [p \in slots |-> NoLoc]
  /\ result = [p \in slots |-> "none"]
  /\ settled = [i \in OrderIds |-> NeverMutated]

InitOrders == InitOrdersWith(Procs)

NextOrders ==
  \E p \in DOMAIN pc :
    \/ GetOrderStart(p)
    \/ GetOrderCacheGet(p)
    \/ GetOrderDbGet(p)
    \/ GetOrderCacheSet(p)
    \/ UpdateOrderStart(p)
    \/ UpdateOrderDbGet(p)
    \/ UpdateOrderCommit(p)
    \/ UpdateOrderCacheDel(p)
    \/ UpdateStatusStart(p)
    \/ UpdateStatusDbGet(p)
    \/ UpdateStatusCommit(p)
    \/ UpdateStatusCacheDel(p)
    \/ DeleteOrderStart(p)
    \/ DeleteOrderDbGet(p)
    \/ DeleteOrderCommit(p)
    \/ DeleteOrderCacheDel(p)

SpecOrders == InitOrders /\ [][NextOrders]_vars

\* Reads of an order racing its deletion: three requests in flight.
InitFetch == InitOrdersWith(FetchProcs)

NextFetch ==
  \E p \in DOMAIN pc :
    \/ GetOrderStart(p)
    \/ GetOrderCacheGet(p)
    \/ GetOrderDbGet(p)
    \/ GetOrderCacheSet(p)
    \/ DeleteOrderStart(p)
    \/ DeleteOrderDbGet(p)
    \/ DeleteOrderCommit(p)
    \/ DeleteOrderCacheDel(p)

SpecFetch == InitFetch /\ [][NextFetch]_vars

\* A run during which the cache is out of service: no client (connect failed)
\* or a client whose every call raises.  Order 1 and product 1 are in the
\* system of record; with a client, the cache may still hold the projections
\* that reads before the outage stored.
InitDegraded ==
  /\ products = [i \in ProductIds |->
                   IF i = 1 THEN Some([price |-> 1, stock_quantity |-> 1]) ELSE None]
  /\ stock0 = 2
  /\ \E o \in SeedOrders : orders = << Some(o) >>
  /\ client \in BOOLEAN
  /\ cache \in {[k \in Keys |-> None]} \cup
       {[k \in Keys |->
           IF k = OrderKey(1) THEN Some(OrderDump(1, Val(orders[1])))
           ELSE IF k = ProductKey(1) THEN Some(ProductDump(1, Val(products[1])))
           ELSE None] : c \in {x \in {client} : x}}
  /\ producer = TRUE
  /\ topic = {}
  /\ pc = [p \in Procs \cup {OutageSlot} |-> IF p = OutageSlot THEN "down" ELSE "idle"]
  /\ req = [p \in Procs \cup {OutageSlot} |-> NoReq]
  /\ loc = [p \in Procs \cup {OutageSlot} |-> NoLoc]
  /\ result = [p \in Procs \cup {OutageSlot} |-> "none"]
  /\ settled = [i \in OrderIds |-> NeverMutated]

\* Every order operation and get_product; create_order never takes its
\* cache-hit path (CreateOrderDeductGet), a lookup that cannot hit.
NextDegraded ==
  \E p \in DOMAIN pc :
    \/ GetOrderStart(p)
    \/ GetOrderCacheGet(p)
    \/ GetOrderDbGet(p)
    \/ GetOrderCacheSet(p)
    \/ UpdateOrderStart(p)
    \/ UpdateOrderDbGet(p)
    \/ UpdateOrderCommit(p)
    \/ UpdateOrderCacheDel(p)
    \/ UpdateStatusStart(p)
    \/ UpdateStatusDbGet(p)
    \/ UpdateStatusCommit(p)
    \/ UpdateStatusCacheDel(p)
    \/ DeleteOrderStart(p)
    \/ DeleteOrderDbGet(p)
    \/ DeleteOrderCommit(p)
    \/ DeleteOrderCacheDel(p)
    \/ ReserveStart(p)
    \/ CreateOrderCacheGet(p)
    \/ CreateOrderDbGet(p)
    \/ CreateOrderCacheSet(p)
    \/ CreateOrderCommit(p)
    \/ CreateOrderCacheDel(p)
    \/ CreateOrderRefresh(p)
    \/ CreateOrderSend(p)
    \/ GetProductStart(p)
    \/ GetProductCacheGet(p)
    \/ GetProductDbGet(p)
    \/ GetProductCacheSet(p)

SpecDegraded == InitDegraded /\ [][NextDegraded]_vars

\* The process starts: startup_event runs KafkaProducer.start and
\* RedisClient.connect, then one request slot serves reservations.
InitStartup ==
  /\ \E st \in Stocks :
       /\ products = [i \in ProductIds |->
                        IF i = 1 THEN Some([price |-> 1, stock_quantity |-> st]) ELSE None]
       /\ stock0 = st
  /\ orders = << >>
  /\ client = FALSE
  /\ cache = [k \in Keys |-> None]
  /\ producer = FALSE
  /\ topic = {}
  /\ pc = [p \in {StartupSlot, "r1"} |-> IF p = StartupSlot THEN "ks_loop" ELSE "down"]
  /\ req = [p \in {StartupSlot, "r1"} |-> IF p = StartupSlot THEN [op |-> "startup"] ELSE NoReq]
  /\ loc = [p \in {StartupSlot, "r1"} |-> IF p = StartupSlot THEN StartupLoc ELSE NoLoc]
  /\ result = [p \in {StartupSlot, "r1"} |-> "none"]
  /\ settled = [i \in OrderIds |-> NeverMutated]

StartupStep ==
  \/ KafkaStartAttempt(StartupSlot)
  \/ KafkaStartReturn(StartupSlot)
  \/ KafkaStartSleep(StartupSlot)
  \/ RedisConnect(StartupSlot)

NextStartup ==
  \/ KafkaStartAttempt(StartupSlot)
  \/ KafkaStartReturn(StartupSlot)
  \/ KafkaStartSleep(StartupSlot)
  \/ RedisConnect(StartupSlot)
  \/ \E p \in DOMAIN pc :
       \/ ReserveStart(p)
       \/ CreateOrderCacheGet(p)
       \/ CreateOrderDbGet(p)
       \/ CreateOrderCacheSet(p)
       \/ CreateOrderDeductGet(p)
       \/ CreateOrderCommit(p)
       \/ CreateOrderCacheDel(p)
       \/ CreateOrderRefresh(p)
       \/ CreateOrderSend(p)

SpecStartup == InitStartup /\ [][NextStartup]_vars

\* The awaits of startup_event complete: start() returns or raises, the sleep
\* ends, connect() returns.
SpecStartupLive == SpecStartup /\ WF_vars(StartupStep)

\* startup_event has created the consumer task; the topic holds some of the
\* payloads.
InitConsumer ==
  /\ products = [i \in ProductIds |->
                   IF i = 1 THEN Some([price |-> 1, stock_quantity |-> 1]) ELSE None]
  /\ stock0 = 1
  /\ orders = << >>
  /\ client = FALSE
  /\ cache = [k \in Keys |-> None]
  /\ producer = FALSE
  /\ topic \in SUBSET ConsumerPayloads
  /\ pc = [p \in {ConsumerSlot} |-> "cs_loop"]
  /\ req = [p \in {ConsumerSlot} |-> [op |-> "consume_order_events"]]
  /\ loc = [p \in {ConsumerSlot} |-> ConsumerLoc]
  /\ result = [p \in {ConsumerSlot} |-> "none"]
  /\ settled = [i \in OrderIds |-> NeverMutated]

\* The awaits of the task that complete by themselves: start() returns or
\* raises, the mail call returns, the sleep ends, stop() returns.
ConsumerAwaitReturns ==
  \/ ConsumerLoop(ConsumerSlot)
  \/ ConsumerStart(ConsumerSlot)
  \/ ConsumerNotify(ConsumerSlot)
  \/ ConsumerSleep(ConsumerSlot)
  \/ ConsumerStop(ConsumerSlot)

NextConsumer ==
  \/ ConsumerLoop(ConsumerSlot)
  \/ ConsumerStart(ConsumerSlot)
  \/ ConsumerNext(ConsumerSlot)
  \/ ConsumerNotify(ConsumerSlot)
  \/ ConsumerSleep(ConsumerSlot)
  \/ ConsumerStop(ConsumerSlot)

SpecConsumer == InitConsumer /\ [][NextConsumer]_vars

SpecConsumerLive == SpecConsumer /\ WF_vars(ConsumerAwaitReturns)

\* Three orders are in the system of record: two of customer 1, one of user
\* 2.  One request lists orders while another deletes one.
ListSeed ==
  << Some([user_id |-> 1, product_id |-> "1", quantity |-> 1, total_price |-> 1,
           customer_email |-> CustomerEmail, shipping_address |-> None,
           status |-> "CREATED", updated_at |-> 0]),
     Some([user_id |-> 2, product_id |-> "1", quantity |-> 1, total_price |-> 2,
           customer_email |-> CustomerEmail, shipping_address |-> None,
           status |-> "CREATED", updated_at |-> 0]),
     Some([user_id |-> 1, product_id |-> "1", quantity |-> 2, total_price |-> 2,
           customer_email |-> CustomerEmail, shipping_address |-> None,
           status |-> "DELIVERED", updated_at |-> 0]) >>

ListSlot == "r1"

InitList ==
  /\ products = [i \in ProductIds |->
                   IF i = 1 THEN Some([price |-> 1, stock_quantity |-> 0]) ELSE None]
  /\ stock0 = 4
  /\ orders = ListSeed
  /\ client = FALSE
  /\ cache = [k \in Keys |-> None]
  /\ producer = FALSE
  /\ topic = {}
  /\ pc = [p \in Procs |-> "idle"]
  /\ req = [p \in Procs |-> NoReq]
  /\ loc = [p \in Procs |-> NoLoc]
  /\ result = [p \in Procs |-> "none"]
  /\ settled = [i \in OrderIds |-> NeverMutated]

NextList ==
  \/ ListOrdersStart(ListSlot)
  \/ ListOrdersCount(ListSlot)
  \/ ListOrdersPage(ListSlot)
  \/ \E p \in DOMAIN pc \ {ListSlot} :
       \/ DeleteOrderStart(p)
       \/ DeleteOrderDbGet(p)
       \/ DeleteOrderCommit(p)
       \/ DeleteOrderCacheDel(p)

SpecList == InitList /\ [][NextList]_vars

\* Every kind of request against one product and one order: order 1 of
\* customer 1 is in the system of record, one unit of product 1 is left, and
\* the cache is empty or holds the projections that earlier reads stored.
InitMix ==
  /\ products = [i \in ProductIds |->
                   IF i = 1 THEN Some([price |-> 1, stock_quantity |-> 1]) ELSE None]
  /\ stock0 = 2
  /\ orders = << Some([user_id |-> 1, product_id |-> "1", quantity |-> 1,
                       total_price |-> 1, customer_email |-> CustomerEmail,
                       shipping_address |-> None, status |-> "CREATED",
                       updated_at |-> 0]) >>
  /\ client \in BOOLEAN
  /\ cache \in {[k \in Keys |-> None]} \cup
       {[k \in Keys |->
           IF k = OrderKey(1) THEN Some(OrderDump(1, Val(orders[1])))
           ELSE IF k = ProductKey(1) THEN Some(ProductDump(1, Val(products[1])))
           ELSE None] : c \in {x \in {client} : x}}
  /\ producer \in BOOLEAN
  /\ topic = {}
  /\ pc = [p \in Procs |-> "idle"]
  /\ req = [p \in Procs |-> NoReq]
  /\ loc = [p \in Procs |-> NoLoc]
  /\ result = [p \in Procs |-> "none"]
  /\ settled = [i \in OrderIds |-> NeverMutated]

NextMix ==
  \E p \in DOMAIN pc :
    \/ ReserveStart(p)
    \/ CreateOrderCacheGet(p)
    \/ CreateOrderDbGet(p)
    \/ CreateOrderCacheSet(p)
    \/ CreateOrderDeductGet(p)
    \/ CreateOrderCommit(p)
    \/ CreateOrderCacheDel(p)
    \/ CreateOrderRefresh(p)
    \/ CreateOrderSend(p)
    \/ GetOrderStart(p)
    \/ GetOrderCacheGet(p)
    \/ GetOrderDbGet(p)
    \/ GetOrderCacheSet(p)
    \/ GetProductStart(p)
    \/ GetProductCacheGet(p)
    \/ GetProductDbGet(p)
    \/ GetProductCacheSet(p)
    \/ UpdateOrderStart(p)
    \/ UpdateOrderDbGet(p)
    \/ UpdateOrderCommit(p)
    \/ UpdateOrderCacheDel(p)
    \/ UpdateStatusStart(p)
    \/ UpdateStatusDbGet(p)
    \/ UpdateStatusCommit(p)
    \/ UpdateStatusCacheDel(p)
    \/ DeleteOrderStart(p)
    \/ DeleteOrderDbGet(p)
    \/ DeleteOrderCommit(p)
    \/ DeleteOrderCacheDel(p)

SpecMix == InitMix /\ [][NextMix]_vars

\* Reservations of the last unit of product 1 racing reads of the product and
\* of the orders:
\* three requests in flight, a connected cache that is empty or holds the
\* product as stored.
InitStale ==
  /\ products = [i \in ProductIds |->
                   IF i = 1 THEN Some([price |-> 1, stock_quantity |-> 1]) ELSE None]
  /\ stock0 = 1
  /\ orders = << >>
  /\ client = TRUE
  /\ cache \in {[k \in Keys |-> None],
                [k \in Keys |-> IF k = ProductKey(1)
                                THEN Some(ProductDump(1, Val(products[1])))
                                ELSE None]}
  /\ producer = TRUE
  /\ topic = {}
  /\ pc = [p \in FetchProcs |-> "idle"]
  /\ req = [p \in FetchProcs |-> NoReq]
  /\ loc = [p \in FetchProcs |-> NoLoc]
  /\ result = [p \in FetchProcs |-> "none"]
  /\ settled = [i \in OrderIds |-> NeverMutated]

NextStale ==
  \E p \in DOMAIN pc :
    \/ ReserveStart(p)
    \/ CreateOrderCacheGet(p)
    \/ CreateOrderDbGet(p)
    \/ CreateOrderCacheSet(p)
    \/ CreateOrderDeductGet(p)
    \/ CreateOrderCommit(p)
    \/ CreateOrderCacheDel(p)
    \/ CreateOrderRefresh(p)
    \/ CreateOrderSend(p)
    \/ GetProductStart(p)
    \/ GetProductCacheGet(p)
    \/ GetProductDbGet(p)
    \/ GetProductCacheSet(p)
    \/ GetOrderStart(p)
    \/ GetOrderCacheGet(p)
    \/ GetOrderDbGet(p)
    \/ GetOrderCacheSet(p)

SpecStale == InitStale /\ [][NextStale]_vars

\* ------------------------------------------------------------------ claims
Min(a, b) == IF a < b THEN a ELSE b

Stock(pid) == Val(products[pid]).stock_quantity

RECURSIVE OrderedQuantity(_)
\* Units ordered by the first n order rows.
OrderedQuantity(n) ==
  IF n = 0 THEN 0
  ELSE OrderedQuantity(n - 1) + (IF orders[n] = None THEN 0 ELSE Val(orders[n]).quantity)

Slots == DOMAIN pc
Quiescent == \A p \in Slots : Idle(p)
Creating(p) == ~Idle(p) /\ req[p].op = "create_order"

\* create_order has built its Order object (the stock check passed).
OrderBuilt(p) ==
  Creating(p) /\ pc[p] \in {"co_deduct_get", "co_commit", "co_cache_del", "co_refresh", "co_send"}

\* C1: when N concurrent create_order requests for one unit of a product with
\* stock S have all ended, exactly min(N, S) of them succeeded and the stock is
\* S - min(N, S).
C1_ExactlyMinSucceed ==
  Quiescent =>
    LET N == Cardinality({p \in Slots : pc[p] = "done"})
        K == Min(N, stock0)
    IN /\ Cardinality({p \in Slots : result[p] = "201_created"}) = K
       /\ Len(orders) = K
       /\ Stock(1) = stock0 - K

\* C2: in every committed state the persisted orders and the stock deductions
\* match: the stock has gone down by exactly the quantities of the orders that
\* exist (no order without its deduction, no deduction without its order).
C2_OrdersMatchDeductions ==
  stock0 - Stock(1) = OrderedQuantity(Len(orders))

\* C3: a create_order that commits while no other writer touched the product
\* since the request began leaves the stock at its value before minus the
\* ordered quantity and adds exactly one order row, the one of the request.
C3_IsolatedCreateDeductsExactly ==
  [][\A p \in Slots :
       (pc[p] = "co_commit" /\ pc'[p] = "co_cache_del" /\ ~loc[p].touched) =>
         LET pid == Val(ParseInt(req[p].product_id))
         IN /\ Val(products'[pid]).stock_quantity
                 = Val(loc[p].sor).stock_quantity - req[p].quantity
            /\ Val(products'[pid]).stock_quantity = Stock(pid) - req[p].quantity
            /\ orders' = Append(orders, Some(NewOrder(req[p], loc[p])))]_vars

C3_Witness ==
  \E p \in Slots :
    /\ pc[p] = "co_cache_del"
    /\ ~loc[p].touched
    /\ req[p].quantity = MaxQuantity
    /\ Stock(1) = 0

\* C4: the total_price create_order gives the order is the product's
\* system-of-record unit price at the time the product was loaded, times the
\* quantity, whatever the cache held.
C4_TotalFromSystemOfRecord ==
  \A p \in Slots :
    OrderBuilt(p) =>
      loc[p].total_price = Val(loc[p].sor).price * req[p].quantity

\* C5: a create_order whose quantity exceeds the product's system-of-record
\* stock at the time of the call is rejected at the stock check as insufficient
\* stock: it never goes on to the reservation.
C5_ExcessQuantityRejected ==
  \A p \in Slots :
    (Creating(p) /\ loc[p].sor # None
       /\ req[p].quantity > Val(loc[p].sor).stock_quantity) =>
      pc[p] \in {"co_db_get", "co_cache_set"}

\* C6: the stock create_order checks the quantity against (and reports as
\* available) is the system-of-record stock, whatever the cache holds under
\* product:{id}.
C6_CheckUsesSystemOfRecord ==
  \A p \in Slots :
    (Creating(p) /\ loc[p].view # None) =>
      Val(loc[p].view).stock_quantity = Val(loc[p].sor).stock_quantity

\* C7: a product's stock_quantity is never negative.
C7_StockNeverNegative ==
  \A i \in ProductIds : products[i] # None => Stock(i) >= 0

\* Two orders were committed against an initial stock of one: the stock is 0.
C7_Witness ==
  /\ stock0 = 1
  /\ Len(orders) = 2
  /\ Stock(1) = 0

\* C9: when the publish of ORDER_CREATED fails or is dropped (the topic does
\* not receive the event), create_order returns the order without raising and
\* the committed order and stock deduction stay as they are.
C9_PublishFailureKeepsOrder ==
  [][\A p \in Slots :
       (pc[p] = "co_send" /\ pc'[p] # "co_send" /\ topic' = topic) =>
         /\ result'[p] = "201_created"
         /\ orders' = orders
         /\ orders[loc[p].order_id] # None
         /\ products' = products]_vars

C9_Witness ==
  \E p \in Slots :
    /\ result[p] = "201_created"
    /\ topic = {}
    /\ producer
    /\ Len(orders) = 1
    /\ Stock(1) = stock0 - 1

\* What the get_order of slot p hands back when its next step returns: the
\* validated cache entry on a hit, nothing when the row is absent, else the row
\* it loaded.
Returned(p) ==
  IF pc[p] = "go_cache_get" THEN Some(OrderValidate(Val(cache[OrderKey(req[p].order_id)])))
  ELSE IF pc[p] = "go_db_get" THEN None
  ELSE loc[p].order

\* Value r is not older than committed state c of the order.
NotOlder(r, c) ==
  IF c.deleted THEN r = None
  ELSE r = None \/ Val(r).updated_at >= c.updated_at

FetchResults == {"200_ok", "403_forbidden", "404_order_not_found"}

\* C8: a get_order(X) that starts after a mutation of X (update, status change
\* or delete) has returned never returns a value of X older than the one that
\* mutation committed.
C8_NoStaleReadAfterMutation ==
  [][\A p \in Slots :
       (req[p].op = "get_order" /\ pc[p] # "done" /\ pc'[p] = "done"
          /\ result'[p] \in FetchResults) =>
         NotOlder(Returned(p), loc[p].floor)]_vars

\* The pcs at which a handler awaits a cache call.
CachePcs ==
  {"co_cache_get", "co_cache_set", "co_cache_del",
   "gp_cache_get", "gp_cache_set", "up_cache_del"}

Steps(p) == pc[p] # "idle" /\ pc'[p] # pc[p]

\* C19: a status change by a non-administrator is rejected as forbidden, its
\* request never gets past the admin dependency and the orders stay as they
\* are, whoever owns the order; by an administrator it is accepted on an
\* existing order of any owner and its commit, on the row as the handler loaded
\* it (no other request wrote the order in between), makes the order's status
\* the requested one.
C19_StatusChangeAdminOnly ==
  [][\A p \in Slots :
       (req[p].op = "update_order_status" /\ Steps(p)) =>
         LET id == req[p].order_id
         IN IF req[p].user.role # ADMIN
            THEN /\ pc[p] = "us_db_get"
                 /\ result'[p] = "403_forbidden"
                 /\ orders' = orders
            ELSE /\ (pc[p] = "us_db_get" /\ OrderRow(id) # None) => pc'[p] = "us_commit"
                 /\ (pc[p] = "us_commit" /\ orders[id] = Some(loc[p].loaded)) =>
                      /\ pc'[p] = "us_cache_del"
                      /\ Val(orders'[id]).status = req[p].status
                 /\ pc'[p] = "done" => result'[p] \in {"200_ok", "404_order_not_found",
                                                       "500_stale_data"}]_vars

\* The owner's status change was refused and the administrator's CONFIRMED is
\* committed on the customer's order.
C19_Witness ==
  /\ orders[1] # None
  /\ Val(orders[1]).user_id = 1
  /\ Val(orders[1]).status = "CONFIRMED"
  /\ \E p, q \in Slots : result[p] = "403_forbidden" /\ result[q] = "200_ok"

\* C20: a delete by a non-administrator is rejected as forbidden before the
\* handler runs and the orders stay as they are, whoever owns the order; the
\* commit of an administrator's delete removes the order's row.
C20_DeleteAdminOnly ==
  [][\A p \in Slots :
       (req[p].op = "delete_order" /\ Steps(p)) =>
         LET id == req[p].order_id
         IN IF req[p].user.role # ADMIN
            THEN /\ pc[p] = "do_db_get"
                 /\ result'[p] = "403_forbidden"
                 /\ orders' = orders
            ELSE /\ (pc[p] = "do_db_get" /\ OrderRow(id) # None) => pc'[p] = "do_commit"
                 /\ pc[p] = "do_commit" => OrderRow(id)' = None
                 /\ pc'[p] = "done" => result'[p] \in {"204_no_content",
                                                       "404_order_not_found"}]_vars

\* The administrator's delete of the customer's order returned and the row is
\* gone, after the owner's own delete was refused.
C20_Witness ==
  /\ orders[1] = None
  /\ settled[1].deleted
  /\ \E p, q \in Slots : result[p] = "403_forbidden" /\ result[q] = "204_no_content"

\* KafkaProducer.start has returned.
StartReturned == pc[StartupSlot] \in {"rc_connect", "done"}

\* All attempts of KafkaProducer.start failed.
StartExhausted == StartReturned /\ loc[StartupSlot].retries = 0

\* C12: once KafkaProducer.start has used up its attempts the producer is
\* unset and stays unset, and every send_message from then on returns without
\* calling the broker and without raising: the topic does not get the event and
\* create_order still returns the order.
C12_NoProducerDropsEvents ==
  [][StartExhausted =>
       /\ ~producer /\ ~producer'
       /\ topic' = topic
       /\ \A p \in Slots :
            pc[p] = "co_send" =>
              /\ \A brokerOk \in BOOLEAN :
                   LET s == send_message(Val(loc[p].event), brokerOk)
                   IN ~s.contacted /\ ~s.raised /\ s.topic = topic
              /\ pc'[p] # pc[p] => result'[p] = "201_created"]_vars

\* After five failed attempts an order was created and its event dropped.
C12_Witness ==
  /\ StartExhausted
  /\ result["r1"] = "201_created"
  /\ Len(orders) = 1
  /\ topic = {}

\* C13: KafkaProducer.start makes at most 5 attempts and returns: with the
\* producer set right after the first attempt that succeeds, having slept once
\* after each failed attempt before it, or with producer = None after the 5th
\* failed attempt, having slept 4 times (not after the last failure).
C13_StartBounded ==
  /\ [](LET l == loc[StartupSlot]
        IN /\ l.attempts <= StartRetries
           /\ StartReturned =>
                \/ /\ producer
                   /\ l.retries = StartRetries - (l.attempts - 1)
                   /\ l.sleeps = l.attempts - 1
                \/ /\ ~producer
                   /\ l.retries = 0
                   /\ l.attempts = StartRetries
                   /\ l.sleeps = StartRetries - 1)
  /\ <>StartReturned

C13_Witness ==
  /\ pc[StartupSlot] = "done"
  /\ ~producer
  /\ loc[StartupSlot].attempts = StartRetries
  /\ loc[StartupSlot].sleeps = StartRetries - 1

\* C11: while the cache is out of service for the whole run (no client, or a
\* client whose every call raises), no step changes the cache or ends in a
\* cache error; every cache lookup of get_order, get_product and create_order
\* is a miss that goes on to the database read; the database read takes the row
\* as the system of record holds it; get_order returns that row, which is never
\* older than what a mutation that returned before the read began committed;
\* and the cache calls leave the database alone and the operation's result is
\* the one its database steps decided.
C11_OutageIsAlwaysMiss ==
  [][\A p \in Slots :
       Steps(p) =>
         /\ cache' = cache
         /\ result'[p] # "500_cache_error"
         /\ pc[p] = "go_cache_get" => pc'[p] = "go_db_get"
         /\ pc[p] = "gp_cache_get" => pc'[p] = "gp_db_get"
         /\ (pc[p] = "co_cache_get" /\ ParseInt(req[p].product_id) # None) =>
              pc'[p] = "co_db_get"
         /\ pc[p] = "go_db_get" =>
              IF OrderRow(req[p].order_id) = None
              THEN result'[p] = "404_order_not_found"
              ELSE pc'[p] = "go_cache_set" /\ loc'[p].order = OrderRow(req[p].order_id)
         /\ pc[p] = "go_cache_set" =>
              /\ result'[p] = FetchResult(loc[p].order, req[p].user)
              /\ NotOlder(loc[p].order, loc[p].floor)
         /\ pc[p] = "gp_db_get" =>
              IF products[req[p].product_id] = None
              THEN result'[p] = "404_product_not_found"
              ELSE pc'[p] = "gp_cache_set" /\ loc'[p].product = products[req[p].product_id]
         /\ pc[p] = "gp_cache_set" => result'[p] = "200_ok"
         /\ pc[p] \in CachePcs \cup {"go_cache_get", "go_cache_set", "uo_cache_del",
                                     "us_cache_del", "do_cache_del"} =>
              /\ products' = products
              /\ orders' = orders
         /\ pc[p] \in {"uo_cache_del", "us_cache_del"} => result'[p] = "200_ok"
         /\ pc[p] = "do_cache_del" => result'[p] = "204_no_content"
         /\ pc[p] = "co_cache_del" => pc'[p] = "co_refresh"]_vars

\* The cache still holds order 1 as it was before a mutation that has
\* returned, and a get_order that began after that mutation has read the
\* current row from the database.
C11_Witness ==
  /\ client
  /\ orders[1] # None
  /\ cache[OrderKey(1)] # None
  /\ OrderValidate(Val(cache[OrderKey(1)])) # Val(orders[1])
  /\ \E p \in Slots :
       /\ pc[p] = "go_cache_set"
       /\ loc[p].floor.updated_at > 0
       /\ loc[p].order = orders[1]

\* C14: while no consumer.start() of consume_order_events has succeeded, the
\* task constructs at most 5 consumers and eventually finishes; it finishes
\* after exactly 5 failures with no retry left and every consumer stopped; and
\* once it has finished it takes no further step: no consumer is created or
\* started again.
C14_ExhaustedConsumerEnds ==
  /\ [](LET l == loc[ConsumerSlot]
        IN l.started = 0 =>
             /\ l.created <= ConsumerRetries
             /\ l.failures + l.retries = ConsumerRetries
             /\ pc[ConsumerSlot] = "done" =>
                  /\ l.failures = ConsumerRetries
                  /\ l.created = ConsumerRetries
                  /\ l.retries = 0
                  /\ ~l.live)
  /\ [][pc[ConsumerSlot] = "done" =>
          /\ pc'[ConsumerSlot] = "done"
          /\ loc'[ConsumerSlot] = loc[ConsumerSlot]]_vars
  /\ <>(loc[ConsumerSlot].started > 0 \/ pc[ConsumerSlot] = "done")

\* Five subscription attempts failed and the task has ended.
C14_Witness ==
  /\ pc[ConsumerSlot] = "done"
  /\ result[ConsumerSlot] = "task_ended"
  /\ loc[ConsumerSlot].started = 0
  /\ loc[ConsumerSlot].failures = ConsumerRetries

\* C15: every step of the consumer task that takes a delivery calls
\* send_order_confirmation once when the delivered event has event =
\* ORDER_CREATED and a non-empty customer_email, and not at all otherwise,
\* whether or not the same event was delivered before; no other step calls it.
C15_NotifiesPerDelivery ==
  [][LET l == loc[ConsumerSlot]
         n == loc'[ConsumerSlot]
     IN IF n.delivered = l.delivered + 1
        THEN LET m == Val(n.msg)
             IN n.calls = l.calls +
                  (IF /\ "event" \in DOMAIN m
                      /\ m.event = "ORDER_CREATED"
                      /\ "customer_email" \in DOMAIN m
                      /\ m.customer_email # ""
                   THEN 1 ELSE 0)
        ELSE n.calls = l.calls /\ n.delivered = l.delivered]_vars

\* The topic holds one event; it was delivered twice and the confirmation was
\* called for twice.
C15_Witness ==
  /\ Cardinality(topic) = 1
  /\ loc[ConsumerSlot].delivered = 2
  /\ loc[ConsumerSlot].calls = 2
  /\ pc[ConsumerSlot] = "cs_next"

\* C16: the step in which send_order_confirmation returns, the mail sent or
\* not, uses no retry, counts no failure, leaves the consumer started and
\* brings the task back to its iteration over the consumer.
C16_MailFailureIsNotFatal ==
  [][(pc[ConsumerSlot] = "cs_notify" /\ pc'[ConsumerSlot] # "cs_notify") =>
       /\ pc'[ConsumerSlot] = "cs_next"
       /\ loc'[ConsumerSlot].retries = loc[ConsumerSlot].retries
       /\ loc'[ConsumerSlot].failures = loc[ConsumerSlot].failures
       /\ loc'[ConsumerSlot].created = loc[ConsumerSlot].created
       /\ loc'[ConsumerSlot].live /\ loc[ConsumerSlot].live]_vars

\* Two confirmations were called for and no mail went out: the event after the
\* failed send was processed by the same consumer with every retry left.
C16_Witness ==
  /\ loc[ConsumerSlot].calls = 2
  /\ loc[ConsumerSlot].mails = 0
  /\ pc[ConsumerSlot] = "cs_next"
  /\ loc[ConsumerSlot].created = 1
  /\ loc[ConsumerSlot].retries = ConsumerRetries

\* list_orders of slot p returns in this step.
ListReturns(p) ==
  req[p].op = "list_orders" /\ pc[p] = "lo_page" /\ pc'[p] = "done"

\* C17: when list_orders returns to a caller who is not an administrator,
\* whatever the filters (a user_id filter naming another user included), every
\* order of the page belongs to the caller, and total is the number of the
\* caller's own orders among those the conditions selected when the count was
\* taken.
C17_ListScopedToCaller ==
  [][\A p \in Slots :
       (ListReturns(p) /\ req[p].user.role # ADMIN) =>
         LET page == result'[p].orders
             own == {i \in 1 .. Len(loc[p].counted) :
                       /\ loc[p].counted[i] # None
                       /\ Val(loc[p].counted[i]).user_id = req[p].user.id}
         IN /\ \A k \in 1 .. Len(page) :
                 /\ orders[page[k]] # None
                 /\ Val(orders[page[k]]).user_id = req[p].user.id
            /\ result'[p].total =
                 Cardinality(MatchingIds(loc[p].counted, req[p].filters, req[p].user) \cap own)
            /\ result'[p].total <= Cardinality(own)]_vars

\* The customer asked for the orders of user 2, who has one: the answer is
\* empty with total 0.
C17_Witness ==
  /\ pc[ListSlot] = "done"
  /\ req[ListSlot].user.role = CUSTOMER
  /\ req[ListSlot].filters.user_id = Some(2)
  /\ req[ListSlot].filters.status = None
  /\ req[ListSlot].filters.min_price = None
  /\ req[ListSlot].filters.max_price = None
  /\ orders[2] # None
  /\ result[ListSlot].total = 0
  /\ result[ListSlot].orders = << >>

\* Row is one of the caller's scope that every filter of the request accepts:
\* a filter is part of the request when it is not None.
MatchesAsStated(filters, user, row) ==
  /\ user.role # ADMIN => row.user_id = user.id
  /\ filters.status # None => row.status = Val(filters.status)
  /\ filters.product_id # None => row.product_id = Val(filters.product_id)
  /\ filters.user_id # None => row.user_id = Val(filters.user_id)
  /\ filters.min_price # None => row.total_price >= Val(filters.min_price)
  /\ filters.max_price # None => row.total_price <= Val(filters.max_price)

\* As MatchesAsStated, with a user_id filter of 0 and an empty product_id
\* filter counting as not given.
MatchesSetFilters(filters, user, row) ==
  /\ user.role # ADMIN => row.user_id = user.id
  /\ filters.status # None => row.status = Val(filters.status)
  /\ (filters.product_id # None /\ Val(filters.product_id) # "") =>
       row.product_id = Val(filters.product_id)
  /\ (filters.user_id # None /\ Val(filters.user_id) # 0) =>
       row.user_id = Val(filters.user_id)
  /\ filters.min_price # None => row.total_price >= Val(filters.min_price)
  /\ filters.max_price # None => row.total_price <= Val(filters.max_price)

\* min(limit, max(0, total - skip))
PageSize(total, skip, limit) ==
  Min(limit, IF total - skip > 0 THEN total - skip ELSE 0)

UpdateOrderEnds(p) ==
  req[p].op = "update_order" /\ pc[p] # "done" /\ pc'[p] = "done"

\* What update_order owes a caller on the row it read: not-found, forbidden
\* or success.
UpdateOrderOutcome(order, user) ==
  IF order = None THEN "404_order_not_found"
  ELSE IF Val(order).user_id # user.id /\ user.role # ADMIN THEN "403_forbidden"
  ELSE "200_ok"

\* C21: update_order ends as not-found exactly when the order is absent from
\* the system of record when it is read, as forbidden exactly when it is there
\* and the caller is neither owner nor administrator, and with success in every
\* other case.
C21_UpdateOutcomesAsStated ==
  [][\A p \in Slots :
       UpdateOrderEnds(p) =>
         result'[p] =
           IF pc[p] = "uo_db_get"
           THEN UpdateOrderOutcome(OrderRow(req[p].order_id), req[p].user)
           ELSE "200_ok"]_vars

\* C22: every step that adds a row to the orders is the commit of a
\* create_order, adds exactly one row, and that row has status CREATED and the
\* user_id of the caller of that create_order, whatever product reference,
\* quantity and total_price the request carries.
C22_CreatedOrderIsCallersAndCreated ==
  [][Len(orders') # Len(orders) =>
       \E p \in Slots :
         /\ req[p].op = "create_order"
         /\ pc[p] = "co_commit"
         /\ pc'[p] = "co_cache_del"
         /\ Len(orders') = Len(orders) + 1
         /\ SubSeq(orders', 1, Len(orders)) = orders
         /\ orders'[Len(orders')] # None
         /\ Val(orders'[Len(orders')]).status = "CREATED"
         /\ Val(orders'[Len(orders')]).user_id = req[p].user.id]_vars

\* The administrator's create_order returned 201 and its order is CREATED and
\* the administrator's.
C22_Witness ==
  /\ Len(orders) = 1
  /\ orders[1] # None
  /\ Val(orders[1]).user_id = 2
  /\ Val(orders[1]).status = "CREATED"
  /\ \E p \in Slots : result[p] = "201_created"

\* C23: an administrator's update_order_status with status s on an order that
\* exists is never turned away, whatever status the order has (DELIVERED,
\* CANCELLED and FAILED included) and whatever s is: the read takes it to the
\* commit with s set on the row, the commit on a row that is still there and
\* whose status is the one read writes s, and the request then returns 200.
C23_AnyStatusTransition ==
  [][\A p \in Slots :
       (req[p].op = "update_order_status" /\ req[p].user.role = ADMIN /\ Steps(p)) =>
         LET id == req[p].order_id
         IN /\ (pc[p] = "us_db_get" /\ OrderRow(id) # None) =>
                 /\ pc'[p] = "us_commit"
                 /\ loc'[p].loaded = Val(OrderRow(id))
                 /\ loc'[p].changed.status = req[p].status
            /\ (pc[p] = "us_commit" /\ orders[id] # None) =>
                 /\ pc'[p] = "us_cache_del"
                 /\ Val(orders[id]).status = loc[p].loaded.status =>
                      Val(orders'[id]).status = req[p].status
            /\ pc[p] = "us_cache_del" => result'[p] = "200_ok"]_vars

\* Two status changes were committed on order 1 and both returned 200: the
\* second took the order back to CREATED from another status.
C23_Witness ==
  /\ orders[1] # None
  /\ Val(orders[1]).status = "CREATED"
  /\ Val(orders[1]).updated_at = 2
  /\ Val(orders[1]).quantity = 1
  /\ Val(orders[1]).total_price = 1
  /\ Val(orders[1]).shipping_address = None
  /\ \A p \in Slots : result[p] = "200_ok"

PublishAttempt(p) == pc[p] = "co_send" /\ pc'[p] # "co_send"

\* C25: each successful create_order makes exactly one publish attempt, of its
\* ORDER_CREATED event: the call of send_message is entered only from the
\* refresh of the committed order, only by create_order, and it ends the
\* request with success, so a request makes it once and a rejected create_order
\* never; a create_order succeeds only through it; and the topic changes in no
\* other step, so update_order, delete_order and update_order_status publish
\* nothing.
C25_OnePublishPerCreatedOrder ==
  [][/\ \A p \in Slots :
          /\ (pc[p] # "done" /\ pc'[p] = "done" /\ result'[p] = "201_created")
               => PublishAttempt(p)
          /\ PublishAttempt(p) =>
               /\ req[p].op = "create_order"
               /\ pc'[p] = "done" /\ result'[p] = "201_created"
               /\ Val(loc[p].event).event = "ORDER_CREATED"
               /\ Val(loc[p].event).order_id = loc[p].order_id
               /\ topic' \in {topic, topic \cup {Val(loc[p].event)}}
          /\ (pc'[p] = "co_send" /\ pc[p] # "co_send") =>
               req[p].op = "create_order" /\ pc[p] = "co_refresh"
          /\ (req[p].op \in {"update_order", "delete_order", "update_order_status"}
                /\ Steps(p)) => topic' = topic
     /\ topic' # topic => \E p \in Slots : PublishAttempt(p)]_vars

\* A create_order succeeded and its event is the only one on the topic, after a
\* mutation of order 1 returned.
C25_Witness ==
  /\ \E p \in Slots : result[p] = "201_created"
  /\ \E p \in Slots : result[p] = "200_ok"
  /\ settled[1] # NeverMutated
  /\ Cardinality(topic) = 1
  /\ \A e \in topic : e.event = "ORDER_CREATED" /\ e.order_id = 2

\* C26: when sending fails on a started producer, the publisher retries that
\* same event before giving up. A request enters the call of send_message once,
\* so a step that leaves it with the event undelivered is the first attempt
\* failing: under the claim that step does not end the call.
C26_FailedSendIsRetried ==
  [][\A p \in Slots :
       (pc[p] = "co_send" /\ producer /\ Steps(p)
          /\ Val(loc[p].event) \notin topic') => pc'[p] # "done"]_vars

\* C27: after a product is created, every change of its stock_quantity is made
\* by deduct_stock, that is in the commit of a create_order; no other operation,
\* update_product included, writes it.
C27_StockWrittenOnlyByDeduct ==
  [][\A i \in ProductIds :
       (products[i] # None /\ products'[i] # None
          /\ Val(products'[i]).stock_quantity # Val(products[i]).stock_quantity)
       => \E p \in Slots :
            req[p].op = "create_order" /\ pc[p] = "co_commit" /\ Steps(p)]_vars

OrderMutations == {"update_order", "delete_order", "update_order_status"}

ReadsOrderRow == {"uo_db_get", "us_db_get", "do_db_get"}

CommitsOrder == {"uo_commit", "us_commit", "do_commit"}

DeletesOrderKey == {"uo_cache_del", "us_cache_del", "do_cache_del"}

\* C28: update_order, delete_order and update_order_status read the order from
\* the system of record whatever the cache holds (they continue with the stored
\* row, and end when there is none), commit, and only then delete the cache key
\* order:{id}: every change they make to the cache clears that one key. The
\* only step that stores a value under a cache key is the cache set of a
\* get_order.
C28_MutationsInvalidateAfterCommit ==
  [][/\ \A p \in Slots :
          (req[p].op \in OrderMutations /\ Steps(p)) =>
            LET id == req[p].order_id
            IN /\ pc[p] \in ReadsOrderRow =>
                    /\ cache' = cache /\ orders' = orders
                    /\ OrderRow(id) = None => pc'[p] = "done"
                    /\ pc'[p] # "done" =>
                         /\ pc'[p] \in CommitsOrder
                         /\ loc'[p].loaded = Val(OrderRow(id))
               /\ pc[p] \in CommitsOrder =>
                    /\ cache' = cache
                    /\ pc'[p] \in DeletesOrderKey \cup {"done"}
                    /\ pc'[p] = "done" => orders' = orders
               /\ pc'[p] \in DeletesOrderKey => pc[p] \in CommitsOrder
               /\ pc[p] \in DeletesOrderKey =>
                    /\ orders' = orders /\ pc'[p] = "done"
                    /\ \A k \in Keys :
                         cache'[k] # cache[k] => k = OrderKey(id) /\ cache'[k] = None
               /\ pc[p] \in ReadsOrderRow \cup CommitsOrder \cup DeletesOrderKey
     /\ \A k \in Keys :
          (cache'[k] # cache[k] /\ cache'[k] # None) =>
            \E p \in Slots : req[p].op = "get_order" /\ pc[p] = "go_cache_set"
                              /\ Steps(p) /\ k = OrderKey(req[p].order_id)]_vars

\* An update has committed while the cache still holds the order as it was
\* before, and the other request has returned with success.
C28_Witness ==
  /\ client
  /\ pc["r1"] = "us_cache_del"
  /\ orders[1] # None /\ Val(orders[1]).updated_at = 1
  /\ cache[OrderKey(1)] # None /\ Val(cache[OrderKey(1)]).updated_at = 0
  /\ result["r2"] = "200_ok"

\* C29: get_order and get_product never change the system of record and never
\* publish. The only write they make is the set of the entity's own cache key,
\* with the projection of the row that was read, and that step is reached
\* exactly from a read of the system of record that found the entity, which in
\* turn is reached only from a cache lookup that returned nothing: an absent
\* entity is never cached. A lookup that ends the request is a hit: the answer
\* comes from the cached value, whatever the system of record holds.
C29_ReadsOnlyFillTheirOwnKey ==
  [][\A p \in Slots :
       /\ (req[p].op \in {"get_order", "get_product"} /\ Steps(p)) =>
            /\ products' = products /\ orders' = orders /\ topic' = topic
            /\ pc[p] \notin {"go_cache_set", "gp_cache_set"} => cache' = cache
       /\ (req[p].op = "get_order" /\ Steps(p)) =>
            LET id == req[p].order_id
                key == OrderKey(id)
            IN /\ pc[p] = "go_cache_get" =>
                    /\ pc'[p] \in {"go_db_get", "done"}
                    /\ (~client \/ cache[key] = None) => pc'[p] = "go_db_get"
                    /\ pc'[p] = "done" =>
                         result'[p] = FetchResult(Some(OrderValidate(Val(cache[key]))),
                                                  req[p].user)
               /\ pc[p] = "go_db_get" =>
                    /\ pc'[p] = IF OrderRow(id) # None THEN "go_cache_set" ELSE "done"
                    /\ OrderRow(id) # None => loc'[p].order = OrderRow(id)
               /\ pc[p] = "go_cache_set" =>
                    /\ pc'[p] = "done"
                    /\ cache' \in {cache,
                                   [cache EXCEPT ![key] = Some(OrderDump(id, Val(loc[p].order)))]}
               /\ pc[p] \in {"go_cache_get", "go_db_get", "go_cache_set"}
       /\ (req[p].op = "get_product" /\ Steps(p)) =>
            LET pid == req[p].product_id
                key == ProductKey(pid)
            IN /\ pc[p] = "gp_cache_get" =>
                    /\ pc'[p] \in {"gp_db_get", "done"}
                    /\ (~client \/ cache[key] = None) => pc'[p] = "gp_db_get"
                    /\ pc'[p] = "done" => result'[p] = "200_ok"
               /\ pc[p] = "gp_db_get" =>
                    /\ pc'[p] = IF products[pid] # None THEN "gp_cache_set" ELSE "done"
                    /\ products[pid] # None => loc'[p].product = products[pid]
               /\ pc[p] = "gp_cache_set" =>
                    /\ pc'[p] = "done"
                    /\ cache' \in {cache,
                                   [cache EXCEPT ![key] = Some(ProductDump(pid, Val(loc[p].product)))]}
               /\ pc[p] \in {"gp_cache_get", "gp_db_get", "gp_cache_set"}]_vars

\* From an empty cache a get_order of order 1 has stored it under its key, and
\* a get_product of a product that does not exist has stored nothing.
C29_Witness ==
  /\ client
  /\ result["r1"] = "200_ok" /\ result["r2"] = "404_product_not_found"
  /\ Len(orders) = 1 /\ orders[1] # None /\ Val(orders[1]).updated_at = 0
  /\ cache[OrderKey(1)] = Some(OrderDump(1, Val(orders[1])))
  /\ \A k \in Keys \ {OrderKey(1)} : cache[k] = None
  /\ Stock(1) = 1 /\ topic = {}

C31_NoStaleStockAfterReservation ==
  [][\A p \in Slots :
       (req[p].op = "get_product" /\ req[p].product_id = 1
          /\ pc[p] = "gp_cache_get" /\ pc'[p] = "done"
          /\ \E q \in Slots : result[q] = "201_created")
       => Val(cache[ProductKey(1)]).stock_quantity # stock0]_vars

\* C32: deduct_stock fails and changes nothing when the product does not exist
\* or its stock is below the quantity; otherwise its commit takes exactly
\* quantity off the stock of the product. A create_order enters it at most once:
\* the commit is reached only from the steps that make the call, never again
\* after a failure.
C32_DeductExactlyOrNothing ==
  [][\A p \in Slots :
       (req[p].op = "create_order" /\ Steps(p)) =>
         /\ (pc[p] = "co_commit" /\ pc'[p] = "co_cache_del") =>
              LET pid == Val(ParseInt(req[p].product_id))
              IN /\ products[pid] # None
                 /\ Stock(pid) >= req[p].quantity
                 /\ Val(products'[pid]).stock_quantity = Stock(pid) - req[p].quantity
         /\ (pc'[p] = "done" /\ result'[p] = "400_stock_deduction_failed") =>
              products' = products /\ orders' = orders
         /\ pc'[p] = "co_commit" =>
              pc[p] \in {"co_db_get", "co_cache_set", "co_deduct_get"}
         /\ pc[p] = "co_commit" => pc'[p] \in {"co_cache_del", "done"}]_vars

\* C33: an ORDER_CREATED publish attempt happens only after the order and its
\* stock deduction are committed, and the event handed to the publisher carries
\* the id, product reference, quantity, total_price and customer_email of the
\* order as create_order committed it, with status CREATED.
C33_EventOfCreatedOrder ==
  [][\A p \in Slots :
       PublishAttempt(p) =>
         LET e == Val(loc[p].event)
         IN /\ loc[p].order_id \in 1 .. Len(orders)
            /\ e = OrderEvent(loc[p].order_id, NewOrder(req[p], loc[p]))
            /\ e.status = "CREATED"]_vars

\* C33, as the code has it: the event is built from the order as db.refresh
\* reads it back after the commit, so it carries the committed values of that
\* moment, which are those of the creation unless an update of the new order
\* committed in between. The call of send_message is reached only through the
\* commit of the order with its stock, the cache delete and that refresh, in
\* this order; a create_order that ends before its commit publishes nothing;
\* id, product reference and customer_email are always those of the creation.
C33_EventOfCommittedOrder ==
  [][\A p \in Slots :
       (req[p].op = "create_order" /\ Steps(p)) =>
         /\ pc'[p] = "co_cache_del" =>
              /\ pc[p] = "co_commit"
              /\ orders' = Append(orders, Some(NewOrder(req[p], loc[p])))
              /\ loc'[p].order_id = Len(orders')
              /\ Val(products'[Val(ParseInt(req[p].product_id))]).stock_quantity
                   = loc[p].new_stock
         /\ pc'[p] = "co_refresh" => pc[p] = "co_cache_del"
         /\ pc'[p] = "co_send" =>
              /\ pc[p] = "co_refresh"
              /\ OrderRow(loc[p].order_id) # None
              /\ loc'[p].event =
                   Some(OrderEvent(loc[p].order_id, Val(OrderRow(loc[p].order_id))))
         /\ PublishAttempt(p) =>
              LET e == Val(loc[p].event)
              IN /\ loc[p].order_id \in 1 .. Len(orders)
                 /\ e.event = "ORDER_CREATED"
                 /\ e.order_id = loc[p].order_id
                 /\ e.product_id = req[p].product_id
                 /\ e.customer_email = CustomerEmail
         /\ topic' # topic => PublishAttempt(p)]_vars

\* The event of order 2 is on the topic with a status that a status change
\* committed between the commit of the order and its refresh.
C33_Witness ==
  /\ result["r1"] = "201_created"
  /\ Len(orders) = 2
  /\ \E e \in topic : e.order_id = 2 /\ e.status # "CREATED"

OrderUpdateFields == {"quantity", "shipping_address", "total_price"}

\* The value update_order assigns to field f when data supplies it.
Supplied(data, f) == IF f = "shipping_address" THEN data[f] ELSE Val(data[f])

\* C34: an order in the system of record changes only in the commit of an
\* update_order or of an update_order_status on it. The commit of update_order
\* changes no field that its request leaves out, gives a field it changes the
\* value supplied, and leaves the status alone: total_price changes only when
\* total_price is supplied, a new quantity alone leaves it as it was. The
\* commit of update_order_status changes the status only.
C34_UpdatesChangeSuppliedFieldsOnly ==
  [][\A i \in 1 .. Len(orders) :
       (orders[i] # None /\ orders'[i] # None /\ orders'[i] # orders[i]) =>
         LET old == Val(orders[i])
             new == Val(orders'[i])
         IN /\ new.user_id = old.user_id /\ new.product_id = old.product_id
            /\ new.customer_email = old.customer_email
            /\ \E p \in Slots :
                 /\ Steps(p) /\ req[p].order_id = i
                 /\ \/ /\ req[p].op = "update_order" /\ pc[p] = "uo_commit"
                       /\ new.status = old.status
                       /\ \A f \in OrderUpdateFields :
                            new[f] # old[f] =>
                              /\ req[p].data[f] # None
                              /\ new[f] = Supplied(req[p].data, f)
                    \/ /\ req[p].op = "update_order_status" /\ pc[p] = "us_commit"
                       /\ new.status \in {old.status, req[p].status}
                       /\ \A f \in OrderUpdateFields : new[f] = old[f]]_vars

\* An update_order that supplied a new quantity only has returned: the order
\* has the quantity and the total_price of its creation.
C34_Witness ==
  /\ orders[1] # None
  /\ Val(orders[1]).quantity = 2 /\ Val(orders[1]).total_price = 1
  /\ Val(orders[1]).shipping_address = None /\ Val(orders[1]).updated_at = 1
  /\ result["r1"] = "200_ok" /\ pc["r2"] = "idle"

\* C35: no step of update_order, delete_order or update_order_status changes a
\* product: the stock an order reserved stays reserved when its quantity is
\* changed, when it is deleted and when its status becomes CANCELLED or FAILED.
C35_OrderMutationsLeaveStock ==
  [][\A p \in Slots :
       (req[p].op \in OrderMutations /\ Steps(p)) => products' = products]_vars

\* Order 1, which took one of the two units of product 1, has been deleted and
\* one unit is still all that is in stock.
C35_Witness ==
  /\ orders[1] = None
  /\ \E p \in Slots : result[p] = "204_no_content"
  /\ settled[1].deleted
  /\ stock0 = 2 /\ Stock(1) = 1

\* C36: consume_order_events creates, and so starts, at most 5 consumers in
\* its lifetime. Every failure, of a start or while receiving and processing,
\* takes one unit of the one budget, which nothing gives back: what is left is
\* always 5 minus the failures so far; and once the 5th failure has happened
\* the task only stops its consumer and ends, whatever it consumed before.
C36_ConsumerBudgetIsShared ==
  LET l == loc[ConsumerSlot]
  IN /\ l.created <= ConsumerRetries
     /\ l.started <= l.created
     /\ l.retries = ConsumerRetries - l.failures
     /\ l.failures = ConsumerRetries =>
          pc[ConsumerSlot] \in {"cs_stop", "cs_loop", "done"}
     /\ pc[ConsumerSlot] \in {"cs_start", "cs_next", "cs_notify"} =>
          l.created = l.failures + 1

\* The task has ended on its 5th failure, after five consumers of which some
\* started, handed over messages and had a failure while receiving.
C36_Witness ==
  LET l == loc[ConsumerSlot]
  IN /\ pc[ConsumerSlot] = "done"
     /\ l.failures = ConsumerRetries /\ l.created = ConsumerRetries
     /\ l.started \in 1 .. ConsumerRetries - 1
     /\ l.delivered > 0 /\ ~l.broke /\ ~l.live

\* C37: at most one consumer of consume_order_events is live at a time. A
\* consumer is created only at the head of the loop, which the task reaches
\* again only through the stop of the consumer of the attempt before, started
\* or not; so no consumer is live when the next one is created, and none is
\* when the task ends.
C37_OneLiveConsumer ==
  [][LET l == loc[ConsumerSlot]
         after == loc'[ConsumerSlot]
         at == pc[ConsumerSlot]
         to == pc'[ConsumerSlot]
     IN /\ after.created # l.created =>
             /\ after.created = l.created + 1
             /\ at = "cs_loop" /\ ~l.live
        /\ (to = "cs_loop" /\ at # "cs_loop") => at = "cs_stop" /\ ~after.live
        /\ (after.live /\ ~l.live) => at = "cs_start" /\ after.started = l.started + 1
        /\ (to = "done" /\ at # "done") =>
             /\ ~after.live
             /\ at = "cs_stop" \/ (at = "cs_loop" /\ l.created > 0)]_vars

\* A second consumer has been created after the first one, which had started
\* and failed while receiving, was stopped.
C37_Witness ==
  LET l == loc[ConsumerSlot]
  IN /\ pc[ConsumerSlot] = "cs_start"
     /\ l.created = 2 /\ l.started = 1 /\ l.failures = 1 /\ ~l.live

\* The committed states product j has had where only reservations of one unit
\* write it: its row with each stock from the first one down to the current.
CommittedProducts(j) ==
  {[Val(products[j]) EXCEPT !.stock_quantity = s] : s \in Stock(j) .. stock0}

\* C38: what the cache holds under order:{X} or product:{P} is the projection
\* of a committed state of that entity: of the order as it was committed (no
\* request changes or deletes an order here, so that is its row), or of the
\* product with one of the stocks it has had. Nothing is cached for an order
\* that was not committed or for a product that never existed.
C38_CacheHoldsCommittedStates ==
  /\ \A i \in OrderIds :
       cache[OrderKey(i)] # None =>
         /\ OrderRow(i) # None
         /\ Val(cache[OrderKey(i)]) = OrderDump(i, Val(OrderRow(i)))
  /\ \A j \in ProductIds :
       cache[ProductKey(j)] # None =>
         /\ products[j] # None
         /\ \E row \in CommittedProducts(j) :
              Val(cache[ProductKey(j)]) = ProductDump(j, row)

\* After a reservation that was refused for lack of stock, the cache holds the
\* committed order 1 and, for product 1, the stock committed before that order.
C38_Witness ==
  /\ Len(orders) = 1 /\ Stock(1) = 0
  /\ cache[OrderKey(1)] # None
  /\ cache[ProductKey(1)] # None
  /\ Val(cache[ProductKey(1)]).stock_quantity = 1
  /\ \E p \in Slots : result[p] = "400_insufficient_stock"

====
